---- MODULE Spec2Model ----
(***************************************************************************)
(* Calibre "Smart Device App" wireless synchronisation of papyrix-reader.  *)
(*                                                                         *)
(* Two implementations of the device side live in the repository:          *)
(*   - the C library lib/Calibre (string opcodes, the device is the TCP    *)
(*     client): calibre_network.c and calibre_protocol.c;                  *)
(*   - CalibreDeviceServer.cpp (numeric opcodes, the device is the TCP     *)
(*     server).                                                            *)
(*                                                                         *)
(* SpecFramer models the message framer of the C library at byte level     *)
(* (calibre_send_msg / calibre_recv_msg).                                  *)
(***************************************************************************)
EXTENDS Integers, Sequences, FiniteSets, TLC

(***************************************************************************)
(* Bytes.  A byte is a one-character string; NUL is the C string           *)
(* terminator and GARBAGE an uninitialised buffer byte.                    *)
(***************************************************************************)
QUOTE == "\""
NUL == "NUL"
GARBAGE == "?"
TAB == "TAB"

DigitChars == <<"0", "1", "2", "3", "4", "5", "6", "7", "8", "9">>

IsDigit(c) == \E i \in 1..10 : DigitChars[i] = c

DigitVal(c) == (CHOOSE i \in 1..10 : DigitChars[i] = c) - 1

\* Scaled stand-ins for the sizes of calibre_internal.h (not under src/).
CALIBRE_JSON_BUF_SIZE == 16
CALIBRE_MAX_MSG_LEN == 17

\* capacity of conn->recv_buf after calibre_conn_create (not under src/), scaled
RECV_BUF_INIT == 12

\* char len_buf[16]
LEN_BUF_SIZE == 16

\* char opcode[32] of the callers of calibre_recv_msg, scaled
OPCODE_SIZE == 5

\* The largest integer of the model checker stands for ULONG_MAX: strtoul
\* saturates there, far above CALIBRE_MAX_MSG_LEN.
ULONG_MAX == 2147483647

RECURSIVE Dec(_)
\* snprintf("%d", n) for n >= 0
Dec(n) == IF n < 10 THEN <<DigitChars[n + 1]>> ELSE Dec(n \div 10) \o <<DigitChars[(n % 10) + 1]>>

RECURSIVE StrToULFrom(_, _)
StrToULFrom(digits, acc) ==
  IF digits = <<>> THEN acc
  ELSE LET d == DigitVal(Head(digits))
       IN  IF acc > (ULONG_MAX - d) \div 10
             THEN StrToULFrom(Tail(digits), ULONG_MAX)
             ELSE StrToULFrom(Tail(digits), acc * 10 + d)

\* strtoul(len_buf, NULL, 10) on a string of digits (the empty string gives 0)
StrToUL(digits) == StrToULFrom(digits, 0)

(***************************************************************************)
(* calibre_send_msg: the bytes written for (opcode, payload).              *)
(***************************************************************************)
MsgBody(opcode, json_payload) ==
  <<"[", QUOTE>> \o opcode \o <<QUOTE, ",", " ">>
     \o (IF json_payload # <<>> THEN json_payload ELSE <<"{", "}">>) \o <<"]">>

\* send_err is the outcome of tcp_send_all: "OK", "SOCKET" or "DISCONNECTED"
calibre_send_msg(opcode, json_payload, send_err) ==
  LET msg == MsgBody(opcode, json_payload)
  IN  IF Len(msg) >= CALIBRE_JSON_BUF_SIZE
        THEN [err |-> "NOMEM", bytes |-> <<>>]
        ELSE IF send_err # "OK"
               THEN [err |-> send_err, bytes |-> <<>>]
               ELSE [err |-> "OK", bytes |-> Dec(Len(msg)) \o msg]

(***************************************************************************)
(* The receive buffer (calibre_buffer_t): data[1..capacity], len.          *)
(***************************************************************************)
calibre_buf_init(cap) == [data |-> [i \in 1..cap |-> GARBAGE], capacity |-> cap, len |-> 0]

calibre_buf_reset_Kept(buf) == buf

calibre_buf_reset(buf) == [buf EXCEPT !.len = 0]

\* C string at the start of a byte array: the bytes before the first NUL
RECURSIVE CStr(_, _)
CStr(data, i) ==
  IF i > Len(data) \/ data[i] = NUL THEN <<>> ELSE <<data[i]>> \o CStr(data, i + 1)

\* strchr(s + from - 1, c): 1-based index of the first c at or after from, 0 if none
RECURSIVE StrChr(_, _, _)
StrChr(s, from, c) ==
  IF from > Len(s) THEN 0
  ELSE IF s[from] = c THEN from ELSE StrChr(s, from + 1, c)

RECURSIVE SkipSep(_, _)
\* while (*payload == ',' || ' ' || '\t') payload++
SkipSep(s, from) ==
  IF from <= Len(s) /\ s[from] \in {",", " ", TAB} THEN SkipSep(s, from + 1) ELSE from

(***************************************************************************)
(* tcp_recv_exact on a stream: the peer has put the bytes `stream' on the  *)
(* socket and then behaves as `tail' says: "closed" (recv returns 0),      *)
(* "stall" (select times out) or "error" (recv fails).                     *)
(***************************************************************************)
TailErr(tail) ==
  CASE tail = "closed" -> "DISCONNECTED"
    [] tail = "stall" -> "TIMEOUT"
    [] OTHER -> "SOCKET"

\* result of tcp_recv_exact(len) at offset pos (bytes already consumed):
\* the error kind and the number of bytes it took from the socket
tcp_recv_exact(stream, tail, pos, len, is_cancelled) ==
  IF len = 0 THEN [err |-> "OK", got |-> 0]
  ELSE IF is_cancelled THEN [err |-> "CANCELLED", got |-> 0]
  ELSE IF Len(stream) - pos >= len THEN [err |-> "OK", got |-> len]
  ELSE [err |-> TailErr(tail), got |-> Len(stream) - pos]

RECURSIVE ReadLenPrefix(_, _, _, _)
\* the loop of calibre_recv_msg that reads the length prefix one byte at a time;
\* yields the digits read, the byte that stopped the loop (NUL when the loop
\* ran out of len_buf) and the bytes consumed
ReadLenPrefix(stream, tail, is_cancelled, len_pos) ==
  IF len_pos >= LEN_BUF_SIZE - 1
    THEN [err |-> "OK", digits |-> SubSeq(stream, 1, len_pos), term |-> NUL, consumed |-> len_pos]
    ELSE LET r == tcp_recv_exact(stream, tail, len_pos, 1, is_cancelled)
         IN  IF r.err # "OK"
               THEN [err |-> r.err, digits |-> <<>>, term |-> NUL, consumed |-> len_pos + r.got]
               ELSE IF ~IsDigit(stream[len_pos + 1])
                      THEN [err |-> "OK", digits |-> SubSeq(stream, 1, len_pos),
                            term |-> stream[len_pos + 1], consumed |-> len_pos + 1]
                      ELSE ReadLenPrefix(stream, tail, is_cancelled, len_pos + 1)

Failed(e, consumed, buf) ==
  [err |-> e, opcode |-> <<>>, payload |-> <<>>, consumed |-> consumed, buf |-> buf, msg_len |-> 0]

\* calibre_recv_msg line 420 without the test for a length of 0
MsgLenValid_ZeroAccepted(msg_len) == ~(msg_len > CALIBRE_MAX_MSG_LEN)

\* calibre_recv_msg line 420, negated: the length prefix is acceptable
MsgLenValid(msg_len) == ~(msg_len = 0 \/ msg_len > CALIBRE_MAX_MSG_LEN)

NeedsRealloc_OffByOne(msg_len, capacity) == msg_len > capacity

\* calibre_recv_msg line 426: the buffer cannot hold the message and its NUL
NeedsRealloc(msg_len, capacity) == msg_len >= capacity

(***************************************************************************)
(* calibre_recv_msg.  alloc_ok is the outcome of the reallocation of the   *)
(* receive buffer, should one be needed.                                   *)
(***************************************************************************)
calibre_recv_msg(stream, tail, is_cancelled, buf, opcode_size, alloc_ok) ==
  LET p == ReadLenPrefix(stream, tail, is_cancelled, 0)
      msg_len == StrToUL(p.digits)
  IN
  IF p.err # "OK" THEN Failed(p.err, p.consumed, buf)
  ELSE IF ~MsgLenValid(msg_len) THEN Failed("PROTOCOL", p.consumed, buf)
  ELSE IF NeedsRealloc(msg_len, buf.capacity) /\ ~alloc_ok
    THEN Failed("NOMEM", p.consumed, [data |-> <<>>, capacity |-> 0, len |-> 0])
  ELSE
    LET b1 == IF NeedsRealloc(msg_len, buf.capacity) THEN calibre_buf_init(msg_len + 1) ELSE buf
        b2 == calibre_buf_reset(b1)
        r == tcp_recv_exact(stream, tail, p.consumed, msg_len - 1, is_cancelled)
        \* line 417 has stored NUL in len_buf[len_pos], over the byte that ended
        \* the prefix (p.term); line 437 copies len_buf[len_pos] to data[0]
        len_buf_at_len_pos == NUL
        \* recv_buf.data[0] = len_buf[len_pos], then the bytes received
        filled == [i \in 1..b2.capacity |->
                     IF i = 1 THEN len_buf_at_len_pos
                     ELSE IF i <= 1 + r.got THEN stream[p.consumed + i - 1]
                     ELSE b2.data[i]]
        b3 == [b2 EXCEPT !.data = filled]
    IN
    IF r.err # "OK" THEN Failed(r.err, p.consumed + r.got, b3)
    ELSE
      LET b4 == [b3 EXCEPT !.data[msg_len + 1] = NUL, !.len = msg_len]
          json == CStr(b4.data, 1)
          q1 == StrChr(json, 1, QUOTE)
          q2 == IF q1 = 0 THEN 0 ELSE StrChr(json, q1 + 1, QUOTE)
          consumed == p.consumed + r.got
      IN
      IF q1 = 0 \/ q2 = 0 THEN [Failed("JSON_PARSE", consumed, b4) EXCEPT !.msg_len = msg_len]
      ELSE
        LET op_len == IF q2 - q1 - 1 >= opcode_size THEN opcode_size - 1 ELSE q2 - q1 - 1
            pstart == SkipSep(json, q2 + 1)
        IN  [err |-> "OK",
             opcode |-> SubSeq(json, q1 + 1, q1 + op_len),
             payload |-> SubSeq(json, pstart, Len(json)),
             consumed |-> consumed, buf |-> b4, msg_len |-> msg_len]


(***************************************************************************)
(* Paths are byte strings.  The sizes are scaled: CALIBRE_MAX_PATH_LEN     *)
(* stands for the 256 of the path buffers.                                 *)
(***************************************************************************)
CALIBRE_MAX_PATH_LEN == 12

\* sizeof(meta.lpath) of calibre_book_meta_t (calibre_wireless.h, not under src/)
LPATH_SIZE == CALIBRE_MAX_PATH_LEN

CALIBRE_FILE_CHUNK_SIZE == 2

STREAM_BUFFER_SIZE == 2

\* BOOKS_DIR "/Books" of CalibreSyncState.h and CalibreDeviceServer.cpp
BOOKS_DIR == <<"/", "B">>

Take(s, n) == SubSeq(s, 1, IF Len(s) < n THEN Len(s) ELSE n)

\* strrchr(s, c): 1-based index of the last c, 0 if none
LastIndex(s, c) ==
  IF \E i \in 1..Len(s) : s[i] = c
    THEN CHOOSE i \in 1..Len(s) : s[i] = c /\ \A j \in (i + 1)..Len(s) : s[j] # c
    ELSE 0

\* lpath is copied into meta.lpath only when it fits; meta was zeroed
MetaLpath(lpath) == IF Len(lpath) < LPATH_SIZE THEN lpath ELSE <<>>

\* snprintf(full_path, sizeof(full_path), "%s/%s", conn->books_dir, meta.lpath)
FullPath(books_dir, lpath) == Take(books_dir \o <<"/">> \o lpath, CALIBRE_MAX_PATH_LEN - 1)

\* the directories mkdir_p(path) makes sure exist
MkdirPDirs(path) ==
  LET tmp0 == Take(path, CALIBRE_MAX_PATH_LEN - 1)
      ls == LastIndex(tmp0, "/")
  IN  IF ls = 0 \/ ls = 1 THEN {}
      ELSE LET tmp == SubSeq(tmp0, 1, ls - 1)
               from == IF tmp[1] = "/" THEN 2 ELSE 1
           IN  {SubSeq(tmp, 1, p - 1) : p \in {q \in from..Len(tmp) : tmp[q] = "/"}} \cup {tmp}

\* mkdir_p: fails when a directory to make is an existing file (ensure_dir
\* returns -1) or when a mkdir that is needed fails (io_ok false)
mkdir_p(path, fs_files, fs_dirs, io_ok) ==
  LET need == MkdirPDirs(path)
  IN  IF \E d \in need : d \in DOMAIN fs_files THEN [ok |-> FALSE, dirs |-> fs_dirs]
      ELSE IF need \subseteq fs_dirs THEN [ok |-> TRUE, dirs |-> fs_dirs]
      ELSE IF ~io_ok THEN [ok |-> FALSE, dirs |-> fs_dirs]
      ELSE [ok |-> TRUE, dirs |-> fs_dirs \cup need]

\* the directory a path lies in (the root when it has no other)
ParentDir(path) ==
  IF LastIndex(path, "/") <= 1 THEN <<"/">> ELSE SubSeq(path, 1, LastIndex(path, "/") - 1)

\* open(path, O_WRONLY | O_CREAT | O_TRUNC) succeeds unless the path names a
\* directory, its directory is missing, or the storage refuses
OpenForWrite(path, fs_dirs, io_ok) ==
  /\ io_ok
  /\ path # <<>>
  /\ path[Len(path)] # "/"
  /\ path \notin fs_dirs
  /\ ParentDir(path) \in fs_dirs \cup {<<"/">>}

\* fs_files with the file at path holding n bytes
WithFile(fs_files, path, n) ==
  [q \in DOMAIN fs_files \cup {path} |-> IF q = path THEN n ELSE fs_files[q]]

\* unlink(path) / SdMan.remove(path)
Unlink(fs_files, path) ==
  IF DOMAIN fs_files \subseteq {path} THEN <<>>
  ELSE [q \in DOMAIN fs_files \ {path} |-> fs_files[q]]

(***************************************************************************)
(* Messages.  A message the device sends is [op, body, caps]; caps is the  *)
(* set of capability flags the body carries as true.                       *)
(***************************************************************************)
Reply(op, body) == [op |-> op, body |-> body, caps |-> {}]

\* the boolean flags of the response of calibre_handle_init_info that are true
ClientInitCaps ==
  {"canAcceptLibraryInfo", "canReceiveBookBinary", "canSendOkToSendbook",
   "canStreamBooks", "canStreamMetadata", "canUseCachedMetadata", "versionOK"}

\* the boolean flags of the response of handleGetInitInfo that are true
ServerInitCaps ==
  {"versionOK", "canStreamBooks", "canStreamMetadata", "canReceiveBookBinary",
   "canDeleteMultipleBooks"}


(***************************************************************************)
(* State.                                                                  *)
(***************************************************************************)
VARIABLES
  role,         \* "client": lib/Calibre; "server": CalibreDeviceServer
  running,      \* CalibreDeviceServer::running
  state,        \* conn->state
  connected,    \* conn->connected / the server's client is connected
  tcp_socket,   \* TRUE when conn->tcp_socket >= 0 / the server has a client
  cancelled,    \* conn->cancelled
  pc,           \* where the device is: "idle" between calls, or inside SEND_BOOK
  req,          \* the message handled by the current (or the last) call, or the
                \* function called when the call handles no message
  sent,         \* the messages passed to calibre_send_msg / sendMessage by that call
  ret,          \* what the last call returned (OK for a call that returns nothing)
  opened,       \* that call opened the destination file
  on_book,      \* paths the book-received callback was invoked with by that call
  progress,     \* <<received, total, answer>> of the progress callbacks of that call
  files,        \* storage: path |-> number of bytes in the file
  dirs,         \* storage: the directories that exist
  books,        \* SEND_BOOK requests handled so far
  meta,         \* [lpath, size] of the book being received
  full_path,    \* destination of the book being received
  json_view,    \* what the payload span of the SEND_BOOK handler shows in the receive buffer
  fd,           \* TRUE while the destination file is open
  received,     \* bytes of the book received so far
  to_receive,   \* length of the chunk being received
  buf_pos,      \* bytes of that chunk received so far
  is_last,      \* the chunk's header said isLast
  err,          \* err of calibre_handle_send_book
  wire,         \* framer: the bytes on the socket
  wire_tail,    \* framer: what the peer does after them
  recv_buf,     \* conn->recv_buf
  rx,           \* framer: what calibre_recv_msg returned
  tx,           \* framer: what calibre_send_msg was called with, and its result
  f_pc,         \* framer: "start", "sent" (a frame is on the wire), "rcvd"
  f_round,      \* framer: messages received so far
  discovery_active, \* conn->discovery_active
  udp_sockets,  \* the indexes i with conn->udp_sockets[i] >= 0 / the port udp listens on
  listen_port,  \* conn->listen_port / tcpPort
  udp_in,       \* the datagram read from each socket by the last discovery pass
  udp_out,      \* the replies that pass sent: [to, text]
  open_tcp,     \* the number of open TCP sockets the device holds to a peer
  stalled,      \* the peer has stopped sending and reading, for good
  ex_pc,        \* tcp_recv_exact: "idle", "loop" (at the top of the loop), "done"
  ex_len,       \* tcp_recv_exact: len
  ex_data,      \* tcp_recv_exact: the bytes stored at data so far
  ex_elapsed,   \* tcp_recv_exact: milliseconds since start_time
  ex_ret,       \* tcp_recv_exact: the value returned
  conn_,        \* CalibreSyncState::conn_ is not null
  libraryInitialized_, \* CalibreSyncState::libraryInitialized_
  sync_pc,      \* CalibreSyncState: "out" (constructed or exited), "in" (entered), "gone"
  inits,        \* the calls of calibre_init that succeeded
  deinits,      \* the calls of calibre_deinit
  lib_calls,    \* the library calls made by the last enter, exit or destructor
  totalPages_,  \* MockContentParser::totalPages_
  currentPage_, \* MockContentParser::currentPage_
  hasMore_,     \* MockContentParser::hasMore_
  aborted_,     \* MockContentParser::aborted_
  pageCount_,   \* MockPageCache::pageCount_
  isPartial_,   \* MockPageCache::isPartial_
  pg_call,      \* the last call on the parser or the cache, with its arguments
  pg_ret,       \* what that call returned
  on_deleted,   \* the paths the book-deleted callback of the device server was called with
  web_running,  \* PapyrixWebServer::running_ (server_ is set exactly then)
  uploadFile,   \* web upload: uploadFile is open
  uploadFileName, \* web upload: uploadFileName
  uploadPath,   \* web upload: uploadPath
  uploadSize,   \* web upload: uploadSize
  uploadSuccess, \* web upload: uploadSuccess
  uploadError,  \* web upload: uploadError
  up_opened,    \* web upload: the file of the upload last started was opened
  up_short,     \* web upload: a write of that upload wrote fewer bytes than it was given
  up_given,     \* web upload: the bytes the WRITE events of that upload carried
  up_event,     \* web upload: the status of the upload event handled last ("NONE": none yet)
  http          \* web upload: the status answered to POST /upload since that upload started (0: none yet)

roleVars == <<role, running>>

connVars == <<state, connected, tcp_socket>>

histVars == <<req, sent, ret, opened, on_book, progress>>

fsVars == <<files, dirs, books>>

xferVars == <<meta, full_path, json_view, fd, received, to_receive, buf_pos, is_last, err>>

framerVars == <<wire, wire_tail, recv_buf, rx, tx, f_pc, f_round>>

protoVars == <<roleVars, connVars, cancelled, pc, histVars, fsVars, xferVars>>

discVars == <<discovery_active, udp_sockets, listen_port, udp_in, udp_out>>

exactVars == <<ex_pc, ex_len, ex_data, ex_elapsed, ex_ret>>

syncVars == <<conn_, libraryInitialized_, sync_pc, inits, deinits, lib_calls>>

cacheVars == <<totalPages_, currentPage_, hasMore_, aborted_, pageCount_, isPartial_, pg_call,
               pg_ret>>

webVars == <<web_running, uploadFile, uploadFileName, uploadPath, uploadSize, uploadSuccess,
             uploadError, up_opened, up_short, up_given, up_event, http>>

appVars == <<syncVars, cacheVars, on_deleted, webVars>>

restVars == <<discVars, open_tcp, stalled, exactVars, appVars>>

vars == <<protoVars, framerVars, restVars>>

(***************************************************************************)
(* Bounds and inputs.                                                      *)
(***************************************************************************)
\* SEND_BOOK requests per behaviour
MaxBooks == 1

\* the largest declared book length the peer uses
MaxBookLen == 3

\* CALIBRE_MAX_BOOK_SIZE (100 MB), scaled
CALIBRE_MAX_BOOK_SIZE == 2

\* the descriptors a process can have open for TCP sockets
MaxSockets == 2

\* CALIBRE_BROADCAST_PORT_COUNT (5 ports), scaled
CALIBRE_BROADCAST_PORT_COUNT == 2

\* the indexes of conn->udp_sockets
Ports == 0..(CALIBRE_BROADCAST_PORT_COUNT - 1)

\* CALIBRE_DEFAULT_PORT and CALIBRE_PORT (9090), scaled
CALIBRE_DEFAULT_PORT == 9

\* the port argument of calibre_start_discovery and CalibreDeviceServer::begin
ListenPorts == {0, 12}

\* the step of calibre_connect that fails
ConnectOutcomes == {"none", "socket", "resolve", "connect"}

\* lpaths the peer may send
P_novel == <<"B", "/", "n", ".", "e">>
P_b == <<"b", ".", "e">>
P_abs == <<"/", "p", ".", "e">>
P_up == <<".", ".", "/", "p", ".", "e">>
P_exe == <<"m", ".", "x">>
P_long == <<"a", "a", "a", "a", "a", "a", "a", "a", "a", "a", "a", "a", ".", "e">>
P_none == <<>>

LPaths == {P_novel, P_b, P_abs, P_up, P_exe, P_long, P_none}

\* the accepted-extension list of the device configuration ("epub", "txt"), scaled
Extensions == {<<"e">>, <<"t">>}

\* titles the peer may send with a book that has no lpath
Titles == {<<>>, <<"t", ":">>}

\* a decoded request; count >= 0 is the {"count": N} payload of a NOOP,
\* count = -1 the empty payload {}
Msg(op) == [op |-> op, lpath |-> <<>>, length |-> 0, count |-> -1, title |-> <<>>]

NoReq == Msg("NONE")

ClientOpcodes ==
  {"GET_INITIALIZATION_INFO", "SET_LIBRARY_INFO", "FREE_SPACE", "SEND_BOOKLISTS",
   "DISPLAY_MESSAGE", "OK", "BOGUS"}

NoopMsgs == {[Msg("NOOP") EXCEPT !.count = c] : c \in {-1, 0, 3}}

SendBookMsgs ==
  {[Msg("SEND_BOOK") EXCEPT !.lpath = l, !.length = n] : l \in LPaths, n \in 0..MaxBookLen}
    \cup {[Msg("SEND_BOOK") EXCEPT !.title = t, !.length = n] : t \in Titles, n \in 0..MaxBookLen}

\* what calibre_send_msg can return
SendErrs == {"OK", "SOCKET", "DISCONNECTED", "NOMEM"}

\* what calibre_recv_msg can fail with while the cancellation flag is clear
RecvErrs == {"TIMEOUT", "DISCONNECTED", "SOCKET", "PROTOCOL", "JSON_PARSE", "NOMEM"}

NoMeta == [lpath |-> <<>>, size |-> 0]

NoRx == Failed("NONE", 0, calibre_buf_init(0))

NoTx == [opcode |-> <<>>, payload |-> <<>>, err |-> "NONE"]

NoXfer ==
  /\ meta = NoMeta
  /\ full_path = <<>>
  /\ json_view = NoReq
  /\ fd = FALSE
  /\ received = 0
  /\ to_receive = 0
  /\ buf_pos = 0
  /\ is_last = FALSE
  /\ err = "OK"

\* the locals of a transfer are gone when its handler returns
ResetXfer ==
  /\ meta' = NoMeta
  /\ full_path' = <<>>
  /\ json_view' = NoReq
  /\ fd' = FALSE
  /\ received' = 0
  /\ to_receive' = 0
  /\ buf_pos' = 0
  /\ is_last' = FALSE
  /\ err' = "OK"

ProtoInit ==
  /\ role \in {"client", "server"}
  /\ running = FALSE
  /\ state = "IDLE"
  /\ connected = FALSE
  /\ tcp_socket = FALSE
  /\ cancelled = FALSE
  /\ pc = "idle"
  /\ req = NoReq
  /\ sent = <<>>
  /\ ret = "OK"
  /\ opened = FALSE
  /\ on_book = <<>>
  /\ progress = <<>>
  /\ on_deleted = <<>>
  /\ files = <<>>
  /\ dirs = {}
  /\ books = 0
  /\ NoXfer

FramerIdle ==
  /\ wire = <<>>
  /\ wire_tail = "stall"
  /\ recv_buf = calibre_buf_init(RECV_BUF_INIT)
  /\ rx = NoRx
  /\ tx = NoTx
  /\ f_pc = "start"
  /\ f_round = 0

DiscoveryIdle ==
  /\ discovery_active = FALSE
  /\ udp_sockets = {}
  /\ listen_port = 0
  /\ udp_in = <<>>
  /\ udp_out = <<>>

ExactIdle ==
  /\ ex_pc = "idle"
  /\ ex_len = 0
  /\ ex_data = <<>>
  /\ ex_elapsed = 0
  /\ ex_ret = "NONE"

\* CalibreSyncState's constructor (CalibreSyncState.h 72-79)
SyncIdle ==
  /\ conn_ = FALSE
  /\ libraryInitialized_ = FALSE
  /\ sync_pc = "out"
  /\ inits = 0
  /\ deinits = 0
  /\ lib_calls = <<>>

NoPgCall == [op |-> "none", arg |-> 0, abort_at |-> 0, post |-> FALSE, prev |-> 0,
             was_partial |-> FALSE, cur |-> 0]

\* the members' initial values of MockContentParser and MockPageCache
CacheFresh ==
  /\ currentPage_ = 0
  /\ hasMore_ = TRUE
  /\ aborted_ = FALSE
  /\ pageCount_ = 0
  /\ isPartial_ = FALSE
  /\ pg_call = NoPgCall
  /\ pg_ret = TRUE

CacheIdle == totalPages_ = 0 /\ CacheFresh

\* the file-scope upload state of PapyrixWebServer.cpp (lines 17-22), no server started
WebIdle ==
  /\ web_running = FALSE
  /\ uploadFile = FALSE
  /\ uploadFileName = <<>>
  /\ uploadPath = <<"/">>
  /\ uploadSize = 0
  /\ uploadSuccess = FALSE
  /\ uploadError = ""
  /\ up_opened = FALSE
  /\ up_short = FALSE
  /\ up_given = 0
  /\ up_event = "NONE"
  /\ http = 0

Init ==
  /\ ProtoInit
  /\ FramerIdle
  /\ DiscoveryIdle
  /\ open_tcp = 0
  /\ stalled = FALSE
  /\ ExactIdle
  /\ SyncIdle
  /\ WebIdle
  /\ CacheIdle

(***************************************************************************)
(* The C library, device as TCP client.                                    *)
(***************************************************************************)
StateRank(st) ==
  CASE st = "IDLE" -> 0
    [] st = "DISCOVERY" -> 1
    [] st = "HANDSHAKE" -> 2
    [] st = "CONNECTED" -> 3
    [] st = "RECEIVING_BOOK" -> 4

\* a call starts: it handles m, and has done nothing yet
StartCall(m) ==
  /\ req' = m
  /\ opened' = FALSE
  /\ on_book' = <<>>
  /\ progress' = <<>>

\* the value calibre_connect returns when the step fail_at fails
ConnectResult(fail_at) ==
  CASE fail_at = "none" -> "OK"
    [] fail_at = "socket" -> "SOCKET"
    [] fail_at \in {"resolve", "connect"} -> "CONNECT"

SocketsAfterConnect_NotClosed(open, fail_at) ==
  IF fail_at = "socket" THEN open ELSE open + 1

\* the open TCP sockets after lines 212-243 of calibre_connect: socket()
\* creates one unless it fails; a failed name resolution or connect() closes it
SocketsAfterConnect(open, fail_at) ==
  IF fail_at = "socket" THEN open
  ELSE IF fail_at \in {"resolve", "connect"} THEN (open + 1) - 1
  ELSE open + 1

\* calibre_disconnect
calibre_disconnect ==
  /\ role = "client"
  /\ pc = "idle"
  /\ tcp_socket' = FALSE
  /\ open_tcp' = (IF tcp_socket THEN open_tcp - 1 ELSE open_tcp)
  /\ connected' = FALSE
  /\ state' = "IDLE"
  /\ recv_buf' = calibre_buf_reset(recv_buf)
  /\ StartCall(Msg("calibre_disconnect")) /\ sent' = <<>> /\ ret' = "OK"
  /\ UNCHANGED <<roleVars, cancelled, pc, fsVars, xferVars, wire, wire_tail, rx, tx, f_pc,
                 f_round, discVars, stalled, exactVars, appVars>>

\* calibre_connect: a conn with connected set is disconnected first (lines
\* 205-207); fail_at is the step that fails: socket(), the name resolution,
\* connect(), or none.  socket() fails when no descriptor is free
calibre_connect(fail_at) ==
  LET open0 == IF connected /\ tcp_socket THEN open_tcp - 1 ELSE open_tcp
      sock0 == IF connected THEN FALSE ELSE tcp_socket
      state0 == IF connected THEN "IDLE" ELSE state
  IN
  /\ role = "client"
  /\ pc = "idle"
  /\ fail_at \in ConnectOutcomes
  /\ fail_at # "socket" => open0 < MaxSockets
  /\ open_tcp' = SocketsAfterConnect(open0, fail_at)
  /\ IF fail_at = "none"
       THEN /\ tcp_socket' = TRUE
            /\ state' = "HANDSHAKE"
       ELSE /\ tcp_socket' = sock0
            /\ state' = state0
  /\ connected' = FALSE
  /\ recv_buf' = (IF connected THEN calibre_buf_reset(recv_buf) ELSE recv_buf)
  /\ StartCall(Msg("calibre_connect")) /\ sent' = <<>> /\ ret' = ConnectResult(fail_at)
  /\ UNCHANGED <<roleVars, cancelled, pc, fsVars, xferVars, wire, wire_tail, rx, tx, f_pc,
                 f_round, discVars, stalled, exactVars, appVars>>

\* the guard of the TCP part of calibre_process, with data to read on the socket
CanProcess ==
  /\ role = "client"
  /\ pc = "idle"
  /\ tcp_socket
  /\ ~stalled
  /\ StateRank(state) >= StateRank("HANDSHAKE")

PeerGone_AnyError(e) == e # "OK"

\* calibre_process line 521: the error for which the session is given up
PeerGone(e) == e = "DISCONNECTED"

\* calibre_process, calibre_recv_msg fails with e
ProcessRecvFail(e) ==
  /\ CanProcess
  /\ IF cancelled THEN e = "CANCELLED" ELSE e \in RecvErrs
  /\ StartCall(NoReq) /\ sent' = <<>>
  /\ ret' = e
  /\ connected' = (IF PeerGone(e) THEN FALSE ELSE connected)
  /\ state' = (IF PeerGone(e) THEN "IDLE" ELSE state)
  /\ UNCHANGED <<roleVars, tcp_socket, cancelled, pc, fsVars, xferVars, framerVars,
                 restVars>>

InitInfoDone_Always(e) == TRUE

\* calibre_handle_init_info lines 195-203: the handshake is complete when the
\* reply was sent
InitInfoDone(e) == e = "OK"

\* calibre_handle_init_info, entered from the dispatch of calibre_process;
\* e is what calibre_send_msg returns
calibre_handle_init_info(e) ==
  /\ CanProcess /\ ~cancelled
  /\ StartCall(Msg("GET_INITIALIZATION_INFO"))
  /\ sent' = <<[op |-> "OK", body |-> "init_info", caps |-> ClientInitCaps]>>
  /\ ret' = e
  /\ state' = (IF InitInfoDone(e) THEN "CONNECTED" ELSE state)
  /\ connected' = (IF InitInfoDone(e) THEN TRUE ELSE connected)
  /\ UNCHANGED <<roleVars, tcp_socket, cancelled, pc, fsVars, xferVars, framerVars,
                 restVars>>

\* the body of the OK reply of the handlers that only answer
ClientReplyBody(op) ==
  CASE op = "SET_LIBRARY_INFO" -> "{}"
    [] op = "FREE_SPACE" -> "free_space_on_device"
    [] op = "SEND_BOOKLISTS" -> "count0_willStream"
    [] op = "DISPLAY_MESSAGE" -> "{}"
    [] op = "NOOP" -> "{}"

\* calibre_handle_library_info, _free_space, _booklists, _message and _noop,
\* entered from the dispatch of calibre_process: each sends one OK and returns
\* the result e of calibre_send_msg
ClientAnswer(m, e) ==
  /\ CanProcess /\ ~cancelled
  /\ m.op \in {"SET_LIBRARY_INFO", "FREE_SPACE", "SEND_BOOKLISTS", "DISPLAY_MESSAGE", "NOOP"}
  /\ StartCall(m)
  /\ sent' = <<Reply("OK", ClientReplyBody(m.op))>>
  /\ ret' = e
  /\ UNCHANGED <<roleVars, connVars, cancelled, pc, fsVars, xferVars, framerVars,
                 restVars>>

\* calibre_process on an OK or an unknown opcode: nothing is done
ClientIgnore(m) ==
  /\ CanProcess /\ ~cancelled
  /\ m.op \in {"OK", "BOGUS"}
  /\ StartCall(m)
  /\ sent' = <<>>
  /\ ret' = "OK"
  /\ UNCHANGED <<roleVars, connVars, cancelled, pc, fsVars, xferVars, framerVars,
                 restVars>>

\* conn->cancelled is set from outside (another task, a callback)
Cancel ==
  /\ role = "client"
  /\ tcp_socket
  /\ ~cancelled
  /\ cancelled' = TRUE
  /\ UNCHANGED <<roleVars, connVars, pc, histVars, fsVars, xferVars, framerVars,
                 restVars>>

(***************************************************************************)
(* calibre_handle_send_book, in steps: each step runs to the next socket   *)
(* read.                                                                   *)
(***************************************************************************)
\* lines 271-355: metadata, mkdir_p, open, the willAccept reply, the chunk
\* buffer.  mk_ok and open_ok are what the storage does, e what the send of
\* willAccept returns, malloc_ok whether the chunk buffer is allocated
SbBegin(m, mk_ok, open_ok, e, malloc_ok) ==
  LET path == FullPath(BOOKS_DIR, MetaLpath(m.lpath))
      mk == mkdir_p(path, files, dirs, mk_ok)
      isopen == mk.ok /\ OpenForWrite(path, mk.dirs, open_ok)
      go == isopen /\ e = "OK" /\ malloc_ok
  IN
  /\ CanProcess /\ ~cancelled
  /\ books < MaxBooks
  /\ m \in SendBookMsgs
  /\ books' = books + 1
  /\ req' = m
  /\ on_book' = <<>>
  /\ progress' = <<>>
  /\ opened' = isopen
  /\ dirs' = mk.dirs
  /\ files' = (IF isopen THEN WithFile(files, path, 0) ELSE files)
  /\ sent' = (IF isopen THEN <<Reply("OK", "willAccept")>> ELSE <<Reply("ERROR", "errorMessage")>>)
  /\ ret' = (IF ~isopen THEN "WRITE_FILE" ELSE IF e # "OK" THEN e
             ELSE IF ~malloc_ok THEN "NOMEM" ELSE "OK")
  /\ IF go
       THEN /\ meta' = [lpath |-> MetaLpath(m.lpath), size |-> m.length]
            /\ full_path' = path
            /\ json_view' = m
            /\ fd' = TRUE
            /\ state' = "RECEIVING_BOOK"
            /\ pc' = "sb_loop"
            /\ UNCHANGED <<received, to_receive, buf_pos, is_last, err>>
       ELSE UNCHANGED <<xferVars, state, pc>>
  /\ UNCHANGED <<roleVars, connected, tcp_socket, cancelled, framerVars,
                 restVars>>

MetaInUse_Span(copy, view) == [lpath |-> MetaLpath(view.lpath), size |-> view.length]

\* the book metadata the handler works with once the SEND_BOOK payload is parsed:
\* its local calibre_book_meta_t, filled by lines 276-310; view is what the payload
\* span shows by now
MetaInUse(copy, view) == copy

BookMeta == MetaInUse(meta, json_view)

\* the receive buffer holds the header of a chunk: what the span of the SEND_BOOK
\* payload shows, read as book metadata
HeaderView(h) == [Msg(h.op) EXCEPT !.length = h.length]

\* the chunk headers the peer may send: [op, length, isLast]
ChunkHeaders ==
  {[op |-> o, length |-> n, isLast |-> l] :
     o \in {"BOOK_DATA", "OK", "NOOP"}, n \in 0..(CALIBRE_FILE_CHUNK_SIZE + 1), l \in BOOLEAN}

\* lines 357-361: the loop ends, or the cancellation flag is seen
SbLoopExit ==
  /\ role = "client"
  /\ pc = "sb_loop"
  /\ received >= BookMeta.size \/ cancelled
  /\ err' = (IF received < BookMeta.size THEN "CANCELLED" ELSE err)
  /\ pc' = "sb_end"
  /\ UNCHANGED <<roleVars, connVars, cancelled, histVars, fsVars, meta, full_path, json_view, fd,
                 received, to_receive, buf_pos, is_last, framerVars,
                 restVars>>

\* lines 363-370: calibre_recv_msg for the chunk header fails with e
SbHeaderFail(e) ==
  /\ role = "client"
  /\ pc = "sb_loop"
  /\ received < BookMeta.size /\ ~cancelled
  /\ e \in RecvErrs
  /\ err' = e
  /\ json_view' \in {json_view, NoReq}
  /\ pc' = "sb_end"
  /\ UNCHANGED <<roleVars, connVars, cancelled, histVars, fsVars, meta, full_path, fd,
                 received, to_receive, buf_pos, is_last, framerVars,
                 restVars>>

\* lines 363-400: a chunk header h is decoded, checked and acknowledged
SbHeader(h) ==
  /\ role = "client"
  /\ pc = "sb_loop"
  /\ ~stalled
  /\ received < BookMeta.size /\ ~cancelled
  /\ h \in ChunkHeaders
  /\ IF h.op \notin {"BOOK_DATA", "OK"} \/ h.length <= 0 \/ h.length > CALIBRE_FILE_CHUNK_SIZE
       THEN /\ err' = "PROTOCOL"
            /\ pc' = "sb_end"
            /\ UNCHANGED <<sent, to_receive, buf_pos, is_last>>
       ELSE /\ sent' = Append(sent, Reply("OK", "{}"))
            /\ to_receive' = h.length
            /\ buf_pos' = 0
            /\ is_last' = h.isLast
            /\ pc' = "sb_raw"
            /\ UNCHANGED err
  /\ json_view' = HeaderView(h)
  /\ UNCHANGED <<roleVars, connVars, cancelled, req, ret, opened, on_book, progress, fsVars,
                 meta, full_path, fd, received, framerVars,
                 restVars>>

\* lines 402-412: one recv() of the raw chunk bytes; n > 0 bytes arrive,
\* n = 0 the peer closed, n = -1 recv failed (not EAGAIN or EINTR).  From a
\* peer that has stalled recv() gets EAGAIN when SO_RCVTIMEO runs out, and the
\* loop continues as it was: no step
SbRawRecv(n) ==
  /\ role = "client"
  /\ pc = "sb_raw"
  /\ ~stalled
  /\ buf_pos < to_receive
  /\ n \in -1..(to_receive - buf_pos)
  /\ IF n <= 0
       THEN /\ err' = (IF n = 0 THEN "DISCONNECTED" ELSE "SOCKET")
            /\ pc' = "sb_end"
            /\ UNCHANGED buf_pos
       ELSE /\ buf_pos' = buf_pos + n
            /\ UNCHANGED <<err, pc>>
  /\ UNCHANGED <<roleVars, connVars, cancelled, histVars, fsVars, meta, full_path, json_view, fd,
                 received, to_receive, is_last, framerVars,
                 restVars>>

\* lines 414-439: the chunk is complete: write it, count it, report progress,
\* acknowledge it.  written is what write() returned, go_on what on_progress
\* returned
SbWrite(written, go_on) ==
  /\ role = "client"
  /\ pc = "sb_raw"
  /\ buf_pos >= to_receive
  /\ written \in {to_receive, to_receive - 1}
  /\ files' = WithFile(files, full_path, files[full_path] + written)
  /\ IF written # to_receive
       THEN /\ err' = "WRITE_FILE"
            /\ pc' = "sb_end"
            /\ UNCHANGED <<received, progress, sent>>
       ELSE /\ received' = received + to_receive
            /\ progress' = Append(progress, <<received + to_receive, BookMeta.size, go_on>>)
            /\ IF ~go_on
                 THEN err' = "CANCELLED" /\ pc' = "sb_end" /\ UNCHANGED sent
                 ELSE /\ sent' = Append(sent, Reply("OK", "{}"))
                      /\ pc' = (IF is_last THEN "sb_end" ELSE "sb_loop")
                      /\ UNCHANGED err
  /\ UNCHANGED <<roleVars, connVars, cancelled, req, ret, opened, on_book, dirs, books, meta,
                 full_path, json_view, fd, to_receive, buf_pos, is_last, framerVars,
                 restVars>>

\* lines 442-460: close the file; call on_book or remove the partial file;
\* the handler returns and its locals are gone
SbEnd ==
  /\ role = "client"
  /\ pc = "sb_end"
  /\ state' = "CONNECTED"
  /\ IF err = "OK" /\ received = BookMeta.size
       THEN on_book' = Append(on_book, full_path) /\ UNCHANGED files
       ELSE files' = Unlink(files, full_path) /\ UNCHANGED on_book
  /\ ret' = err
  /\ pc' = "idle"
  /\ ResetXfer
  /\ UNCHANGED <<roleVars, connected, tcp_socket, cancelled, req, sent, opened, progress,
                 dirs, books, framerVars,
                 restVars>>

(***************************************************************************)
(* CalibreDeviceServer, device as TCP server.                              *)
(***************************************************************************)
\* setupUdpListener: udp listens on the first port that binds, if any does
FirstBound(bound) == {i \in bound : \A j \in bound : i <= j}

\* CalibreDeviceServer::begin(port); bound are the discovery ports on which
\* udp.begin succeeds
SrvBegin(port, bound) ==
  /\ role = "server"
  /\ pc = "idle"
  /\ ~running
  /\ port \in ListenPorts
  /\ bound \in SUBSET Ports
  /\ listen_port' = port
  /\ udp_sockets' = FirstBound(bound)
  /\ running' = TRUE
  /\ StartCall(NoReq) /\ sent' = <<>> /\ ret' = "OK"
  /\ UNCHANGED <<role, connVars, cancelled, pc, fsVars, xferVars, framerVars, discovery_active,
                 udp_in, udp_out, open_tcp, stalled, exactVars, appVars>>

\* CalibreDeviceServer::stop
SrvStop ==
  /\ role = "server"
  /\ pc = "idle"
  /\ running
  /\ running' = FALSE
  /\ tcp_socket' = FALSE
  /\ open_tcp' = (IF tcp_socket THEN open_tcp - 1 ELSE open_tcp)
  /\ connected' = FALSE
  /\ udp_sockets' = {}
  /\ StartCall(NoReq) /\ sent' = <<>> /\ ret' = "OK"
  /\ UNCHANGED <<role, state, cancelled, pc, fsVars, xferVars, framerVars, discovery_active,
                 listen_port, udp_in, udp_out, stalled, exactVars, appVars>>

\* CalibreDeviceServer::loop, lines 75-85: a new client is taken when none is
\* connected; the socket of the client it replaces is released
SrvAccept ==
  /\ role = "server"
  /\ pc = "idle"
  /\ running
  /\ ~tcp_socket \/ ~connected
  /\ tcp_socket' = TRUE
  /\ open_tcp' = (IF tcp_socket THEN open_tcp - 1 ELSE open_tcp) + 1
  /\ connected' = TRUE
  /\ StartCall(NoReq) /\ sent' = <<>> /\ ret' = "OK"
  /\ UNCHANGED <<roleVars, state, cancelled, pc, fsVars, xferVars, framerVars, discVars,
                 stalled, exactVars, appVars>>

\* the peer closes the connection: client.connected() turns false
SrvPeerClose ==
  /\ role = "server"
  /\ tcp_socket /\ connected
  /\ connected' = FALSE
  /\ UNCHANGED <<roleVars, state, tcp_socket, cancelled, pc, histVars, fsVars, xferVars,
                 framerVars,
                 restVars>>

\* loop line 88: a message of the connected client is there to be handled
SrvCanHandle ==
  /\ role = "server"
  /\ pc = "idle"
  /\ running
  /\ tcp_socket /\ connected

ServerOpcodes ==
  {"GET_INITIALIZATION_INFO", "TOTAL_SPACE", "FREE_SPACE", "GET_BOOK_COUNT",
   "SEND_BOOKLISTS", "OK", "BOGUS"}

\* what handleClientMessage answers to the opcodes that only get an answer
ServerReply(op) ==
  CASE op = "NOOP" -> Reply("NOOP", "{}")
    [] op = "GET_INITIALIZATION_INFO" ->
         [op |-> "OK", body |-> "init_info", caps |-> ServerInitCaps]
    [] op = "TOTAL_SPACE" -> Reply("OK", "total_space_on_device")
    [] op = "FREE_SPACE" -> Reply("OK", "free_space_on_device")
    [] op = "GET_BOOK_COUNT" -> Reply("OK", "count")
    [] op = "SEND_BOOKLISTS" -> Reply("OK", "booklist")
    [] OTHER -> Reply("ERROR", "Unknown opcode")

\* handleClientMessage for every opcode but SEND_BOOK and DELETE_BOOK
SrvAnswer(m) ==
  /\ SrvCanHandle
  /\ m.op \in ServerOpcodes \cup {"NOOP"}
  /\ StartCall(m)
  /\ sent' = <<ServerReply(m.op)>>
  /\ ret' = "OK"
  /\ UNCHANGED <<roleVars, connVars, cancelled, pc, fsVars, xferVars, framerVars,
                 restVars>>

\* sanitizeFilename: the characters that are replaced
SanitizeChar(c) == IF c \in {"/", "\\", ":", "*", "?", QUOTE, "<", ">", "|"} THEN "_" ELSE c

RECURSIVE TrimLeft(_)
TrimLeft(n) == IF n # <<>> /\ Head(n) \in {" ", "."} THEN TrimLeft(Tail(n)) ELSE n

RECURSIVE TrimRight(_)
TrimRight(n) ==
  IF n # <<>> /\ n[Len(n)] \in {" ", "."} THEN TrimRight(SubSeq(n, 1, Len(n) - 1)) ELSE n

\* the name sanitizeFilename returns for a name that trims to nothing ("Untitled"), scaled
Untitled == <<"U", "n", "t">>

sanitizeFilename(name) ==
  LET r == TrimRight(TrimLeft([i \in 1..Len(name) |-> SanitizeChar(name[i])]))
  IN  IF r = <<>> THEN Untitled ELSE r

\* the title used when the request has none ("Unknown"), scaled
UnknownTitle == <<"U", "n", "k">>

\* the extension appended to a path made from the title (".epub"), scaled
DotEpub == <<".", "e">>

\* handleSendBook, lines 291-320: the destination path
DestPath(lpath, title) ==
  IF lpath # <<>> THEN <<"/">> \o lpath
  ELSE BOOKS_DIR \o <<"/">> \o sanitizeFilename(IF title = <<>> THEN UnknownTitle ELSE title)
         \o DotEpub

\* handleSendBook, lines 298-315: the directories after the two mkdir calls,
\* whose results are not checked; io_ok is whether the storage makes them
SrvMkdirs(lpath, fs_dirs, io_ok) ==
  LET dest == <<"/">> \o lpath
      ls == LastIndex(dest, "/")
      d1 == IF io_ok THEN fs_dirs \cup {BOOKS_DIR} ELSE fs_dirs
  IN  IF lpath # <<>> /\ ls > 1 /\ io_ok THEN d1 \cup {SubSeq(dest, 1, ls - 1)} ELSE d1

\* handleSendBook up to the first pass of the loop of streamBookToFile
handleSendBook(m, mk_ok, open_ok) ==
  LET dest == DestPath(m.lpath, m.title)
      d == SrvMkdirs(m.lpath, dirs, mk_ok)
      isopen == OpenForWrite(dest, d, open_ok)
  IN
  /\ SrvCanHandle
  /\ m \in SendBookMsgs
  /\ books < MaxBooks
  /\ books' = books + 1
  /\ req' = m
  /\ on_book' = <<>>
  /\ progress' = <<>>
  /\ opened' = isopen
  /\ dirs' = d
  /\ ret' = "OK"
  /\ IF isopen
       THEN /\ files' = WithFile(files, dest, 0)
            /\ sent' = <<Reply("OK", "willStreamBinary")>>
            /\ meta' = [lpath |-> m.lpath, size |-> m.length]
            /\ full_path' = dest
            /\ UNCHANGED json_view
            /\ fd' = TRUE
            /\ pc' = "st_loop"
            /\ UNCHANGED <<received, to_receive, buf_pos, is_last, err>>
       ELSE /\ sent' = <<Reply("OK", "willStreamBinary"), Reply("ERROR", "Failed to save book")>>
            /\ UNCHANGED <<files, xferVars, pc>>
  /\ UNCHANGED <<roleVars, connVars, cancelled, framerVars,
                 restVars>>

\* streamBookToFile fails inside its loop: the file is closed and removed,
\* handleSendBook sends ERROR and returns
SrvStreamFail ==
  /\ files' = Unlink(files, full_path)
  /\ sent' = Append(sent, Reply("ERROR", "Failed to save book"))
  /\ pc' = "idle"
  /\ ResetXfer
  /\ UNCHANGED progress

\* one pass of the loop of streamBookToFile (lines 500-541): avail bytes can be
\* read (none for more than 30 s when timed_out), written is what file.write
\* returned, report whether 250 ms have passed since the last progress report;
\* the server's progress callback returns nothing, which is recorded as the
\* answer TRUE
SrvStreamStep(avail, timed_out, written, report) ==
  LET rest == meta.size - received
      cap == IF STREAM_BUFFER_SIZE < rest THEN STREAM_BUFFER_SIZE ELSE rest
      toRead == IF avail < cap THEN avail ELSE cap
  IN
  /\ role = "server"
  /\ pc = "st_loop"
  /\ received < meta.size
  /\ IF ~connected
       THEN SrvStreamFail
       ELSE IF avail = 0
         THEN timed_out /\ SrvStreamFail
         ELSE IF written # toRead
           THEN SrvStreamFail
           ELSE /\ files' = WithFile(files, full_path, files[full_path] + written)
                /\ received' = received + toRead
                /\ progress' = (IF report
                                  THEN Append(progress, <<received + toRead, meta.size, TRUE>>)
                                  ELSE progress)
                /\ UNCHANGED <<sent, pc, meta, full_path, json_view, fd, to_receive, buf_pos, is_last, err>>
  /\ UNCHANGED <<roleVars, connVars, cancelled, req, ret, opened, on_book, dirs, books,
                 framerVars,
                 restVars>>

\* the loop of streamBookToFile is over: lines 543-548, then handleSendBook
\* lines 332-347: BOOK_DONE and the book-received callback
SrvStreamEnd ==
  /\ role = "server"
  /\ pc = "st_loop"
  /\ received >= meta.size
  /\ progress' = Append(progress, <<received, meta.size, TRUE>>)
  /\ sent' = Append(sent, Reply("BOOK_DONE", "{}"))
  /\ on_book' = Append(on_book, full_path)
  /\ pc' = "idle"
  /\ ResetXfer
  /\ UNCHANGED <<roleVars, connVars, cancelled, req, ret, opened, fsVars, framerVars,
                 restVars>>

\* the lpath of the books directory itself
BooksLpath == Tail(BOOKS_DIR)

\* the DELETE_BOOK requests a peer may send
DeleteBookMsgs ==
  {[Msg("DELETE_BOOK") EXCEPT !.lpath = l] : l \in {P_none, P_b, P_novel, BooksLpath}}

DeleteReply_AlwaysOk(lpath, exists, removed) == Reply("OK", "{}")

\* what handleDeleteBook answers: exists is what SdMan.exists said of the path,
\* removed whether SdMan.remove took the file away
DeleteReply(lpath, exists, removed) ==
  IF lpath = <<>> THEN Reply("ERROR", "No lpath provided")
  ELSE IF exists /\ ~removed THEN Reply("ERROR", "Failed to delete file")
  ELSE Reply("OK", "{}")

\* handleDeleteBook, lines 350-378.  SdMan.exists is true of files and of
\* directories; SdMan.remove removes a file when the storage allows it (rm_ok)
\* and fails on a directory
handleDeleteBook(m, rm_ok) ==
  LET fullPath == <<"/">> \o m.lpath
      exists == fullPath \in DOMAIN files \/ fullPath \in dirs
      removed == m.lpath # <<>> /\ fullPath \in DOMAIN files /\ rm_ok
  IN
  /\ SrvCanHandle
  /\ m \in DeleteBookMsgs
  /\ StartCall(m)
  /\ sent' = <<DeleteReply(m.lpath, exists, removed)>>
  /\ ret' = "OK"
  /\ files' = (IF removed THEN Unlink(files, fullPath) ELSE files)
  /\ on_deleted' = (IF removed THEN Append(on_deleted, fullPath) ELSE on_deleted)
  /\ UNCHANGED <<roleVars, connVars, cancelled, pc, dirs, books, xferVars, framerVars,
                 discVars, open_tcp, stalled, exactVars, syncVars, cacheVars, webVars>>

(***************************************************************************)
(* The protocol specification: both roles, at message level.  A handler    *)
(* step takes the decoded message as its input; what calibre_recv_msg      *)
(* makes of the bytes on the socket is the subject of SpecFramer.          *)
(***************************************************************************)
ClientNext ==
  \/ \E fail_at \in ConnectOutcomes : calibre_connect(fail_at)
  \/ calibre_disconnect
  \/ \E e \in RecvErrs \cup {"CANCELLED"} : ProcessRecvFail(e)
  \/ \E e \in SendErrs : calibre_handle_init_info(e)
  \/ \E m \in {Msg(o) : o \in ClientOpcodes} \cup NoopMsgs, e \in SendErrs : ClientAnswer(m, e)
  \/ \E m \in {Msg(o) : o \in ClientOpcodes} : ClientIgnore(m)
  \/ Cancel
  \/ \E m \in SendBookMsgs, mk_ok, open_ok, malloc_ok \in BOOLEAN, e \in SendErrs :
        SbBegin(m, mk_ok, open_ok, e, malloc_ok)
  \/ SbLoopExit
  \/ \E e \in RecvErrs : SbHeaderFail(e)
  \/ \E h \in ChunkHeaders : SbHeader(h)
  \/ \E n \in -1..CALIBRE_FILE_CHUNK_SIZE : SbRawRecv(n)
  \/ \E written \in -1..CALIBRE_FILE_CHUNK_SIZE, go_on \in BOOLEAN : SbWrite(written, go_on)
  \/ SbEnd

ServerNext ==
  \/ \E port \in ListenPorts, bound \in SUBSET Ports : SrvBegin(port, bound)
  \/ SrvStop
  \/ SrvAccept
  \/ SrvPeerClose
  \/ \E m \in {Msg(o) : o \in ServerOpcodes} \cup NoopMsgs : SrvAnswer(m)
  \/ \E m \in SendBookMsgs, mk_ok, open_ok \in BOOLEAN : handleSendBook(m, mk_ok, open_ok)
  \/ \E avail \in 0..(STREAM_BUFFER_SIZE + 1), timed_out, report \in BOOLEAN,
        written \in 0..STREAM_BUFFER_SIZE : SrvStreamStep(avail, timed_out, written, report)
  \/ SrvStreamEnd
  \/ \E m \in DeleteBookMsgs, rm_ok \in BOOLEAN : handleDeleteBook(m, rm_ok)

Next == ClientNext \/ ServerNext

Spec == Init /\ [][Next]_vars

(***************************************************************************)
(* The framer specification: calibre_send_msg and calibre_recv_msg at byte *)
(* level.  A frame comes from calibre_send_msg (the round trip) or from a  *)
(* peer that writes what it likes.                                         *)
(***************************************************************************)
\* messages received per behaviour
MaxRounds == 2

Rep(c, k) == [i \in 1..k |-> c]

\* opcodes and payloads handed to calibre_send_msg
FOpcodes == {<<"O", "K">>, <<"N">>, <<"N", "O", "O", "P">>, <<"E", "R", "R", "O", "R">>}

FPayloads == {<<>>, <<"{", "}">>, <<"{", "x", "}">>, <<"{", QUOTE, "c", QUOTE, ":", "3", "}">>}

\* message bodies a peer may write
PeerBodies ==
  {MsgBody(<<"N">>, <<>>), <<"[", "N", "]">>,
   <<"[", QUOTE, "N", QUOTE, ",", TAB, " ", "7", "]">>, Rep("x", CALIBRE_MAX_MSG_LEN)}

\* what a peer may write: a body after its length, after a length that is
\* wrong, 0 or too large; digits only, with or without a byte after them; a
\* message as long as the receive buffer is when created
PeerStreams ==
  UNION {{Dec(n) \o b : n \in {0, Len(b), Len(b) + 1, CALIBRE_MAX_MSG_LEN + 1}} : b \in PeerBodies}
    \cup {Rep(d, k) \o t : d \in {"0", "9"},
                           k \in {0, 1, LEN_BUF_SIZE - 2, LEN_BUF_SIZE - 1, LEN_BUF_SIZE},
                           t \in {<<>>, <<"[">>}}
    \cup {Rep("0", k) \o <<"9">> \o MsgBody(<<"N">>, <<>>) : k \in {1, LEN_BUF_SIZE - 2}}
    \cup {Dec(RECV_BUF_INIT) \o <<"[">> \o Rep("x", RECV_BUF_INIT - 1)}

\* calibre_send_msg is called; the bytes it writes are on the wire
FSend(opcode, payload, e) ==
  LET r == calibre_send_msg(opcode, payload, e)
  IN  /\ f_pc = "start"
      /\ f_round < MaxRounds
      /\ tx' = [opcode |-> opcode, payload |-> payload, err |-> r.err]
      /\ wire' = r.bytes
      /\ f_pc' = (IF r.err = "OK" THEN "sent" ELSE "start")
      /\ UNCHANGED <<protoVars, restVars, wire_tail, recv_buf, rx, f_round>>

\* a peer writes stream and then closes, stalls or breaks the connection
FPeer(stream, tail) ==
  /\ f_pc = "start"
  /\ f_round < MaxRounds
  /\ tx' = NoTx
  /\ wire' = stream
  /\ wire_tail' = tail
  /\ f_pc' = "sent"
  /\ UNCHANGED <<protoVars, restVars, recv_buf, rx, f_round>>

\* calibre_recv_msg is called on what is on the wire
FRecv(alloc_ok) ==
  LET r == calibre_recv_msg(wire, wire_tail, cancelled, recv_buf, OPCODE_SIZE, alloc_ok)
  IN  /\ f_pc = "sent"
      /\ rx' = r
      /\ recv_buf' = r.buf
      /\ f_pc' = "rcvd"
      /\ f_round' = f_round + 1
      /\ UNCHANGED <<protoVars, restVars, wire, wire_tail, tx>>

\* the caller is done with the result; the connection is used again
FAgain ==
  /\ f_pc = "rcvd"
  /\ f_pc' = "start"
  /\ wire' = <<>>
  /\ wire_tail' = "stall"
  /\ rx' = NoRx
  /\ tx' = NoTx
  /\ UNCHANGED <<protoVars, restVars, recv_buf, f_round>>

\* conn->cancelled is set while a frame waits to be read
FCancel ==
  /\ f_pc = "sent"
  /\ ~cancelled
  /\ cancelled' = TRUE
  /\ UNCHANGED <<roleVars, connVars, pc, histVars, fsVars, xferVars, framerVars,
                 restVars>>

FramerInit == Init /\ role = "client"

FramerNext ==
  \/ \E o \in FOpcodes, p \in FPayloads, e \in SendErrs : FSend(o, p, e)
  \/ \E s \in PeerStreams, t \in {"closed", "stall", "error"} : FPeer(s, t)
  \/ \E a \in BOOLEAN : FRecv(a)
  \/ FAgain
  \/ FCancel

SpecFramer == FramerInit /\ [][FramerNext]_vars

(***************************************************************************)
(* UDP discovery and the connection life cycle of the C library.           *)
(***************************************************************************)
DiscoveryStarts_Always(socks) == TRUE

\* calibre_start_discovery lines 126-134: at least one slot holds a socket
DiscoveryStarts(socks) == Cardinality(socks) # 0

UdpAfterStop_LeftOpen(socks) == socks

\* calibre_stop_discovery lines 146-151: every open slot is closed and set to -1
UdpAfterStop(socks) == {}

StateAfterStop_Idle(st) == "IDLE"

\* calibre_stop_discovery lines 154-156
StateAfterStop(st) == IF st = "DISCOVERY" THEN "IDLE" ELSE st

\* calibre_start_discovery; bound are the indexes for which socket() and
\* bind() succeed.  A slot whose port does not bind keeps its value
calibre_start_discovery(port, bound) ==
  LET socks == udp_sockets \cup bound
  IN
  /\ role = "client"
  /\ pc = "idle"
  /\ port \in ListenPorts
  /\ bound \in SUBSET Ports
  /\ IF discovery_active
       THEN /\ ret' = "OK"
            /\ UNCHANGED <<discVars, state>>
       ELSE /\ listen_port' = (IF port # 0 THEN port ELSE CALIBRE_DEFAULT_PORT)
            /\ UNCHANGED <<udp_in, udp_out>>
            /\ udp_sockets' = socks
            /\ IF DiscoveryStarts(socks)
                 THEN /\ discovery_active' = TRUE
                      /\ state' = "DISCOVERY"
                      /\ ret' = "OK"
                 ELSE /\ ret' = "SOCKET"
                      /\ UNCHANGED <<discovery_active, state>>
  /\ StartCall(Msg("calibre_start_discovery")) /\ sent' = <<>>
  /\ UNCHANGED <<roleVars, connected, tcp_socket, cancelled, pc, fsVars, xferVars, framerVars,
                 open_tcp, stalled, exactVars, appVars>>

\* calibre_stop_discovery
calibre_stop_discovery ==
  /\ role = "client"
  /\ pc = "idle"
  /\ udp_sockets' = UdpAfterStop(udp_sockets)
  /\ discovery_active' = FALSE
  /\ UNCHANGED <<listen_port, udp_in, udp_out>>
  /\ state' = StateAfterStop(state)
  /\ StartCall(Msg("calibre_stop_discovery")) /\ sent' = <<>> /\ ret' = "OK"
  /\ UNCHANGED <<roleVars, connected, tcp_socket, cancelled, pc, fsVars, xferVars, framerVars,
                 open_tcp, stalled, exactVars, appVars>>

\* what a peer may write to a connection: a frame, whole or short of its last byte
ProcessStreams ==
  LET frame == calibre_send_msg(<<"N">>, <<>>, "OK").bytes
  IN  {frame, SubSeq(frame, 1, Len(frame) - 1)}

\* calibre_process lines 501-526 on the bytes stream, after which the peer
\* behaves as tail says: calibre_recv_msg runs on conn->recv_buf and fails.
\* (What follows a frame received with CALIBRE_OK are the handlers' steps.)
ProcessRecv(stream, tail, alloc_ok) ==
  LET r == calibre_recv_msg(stream, tail, cancelled, recv_buf, OPCODE_SIZE, alloc_ok)
  IN
  /\ CanProcess
  /\ r.err # "OK"
  /\ recv_buf' = r.buf
  /\ StartCall(NoReq) /\ sent' = <<>>
  /\ ret' = r.err
  /\ connected' = (IF PeerGone(r.err) THEN FALSE ELSE connected)
  /\ state' = (IF PeerGone(r.err) THEN "IDLE" ELSE state)
  /\ UNCHANGED <<roleVars, tcp_socket, cancelled, pc, fsVars, xferVars, wire, wire_tail, rx, tx,
                 f_pc, f_round, restVars>>

\* the calls an application makes on a connection that receives no book:
\* discovery, connect, disconnect, and calibre_process with its handlers
ConnNext ==
  \/ \E port \in ListenPorts, bound \in SUBSET Ports : calibre_start_discovery(port, bound)
  \/ calibre_stop_discovery
  \/ \E fail_at \in ConnectOutcomes : calibre_connect(fail_at)
  \/ calibre_disconnect
  \/ \E e \in RecvErrs \cup {"CANCELLED"} : ProcessRecvFail(e)
  \/ \E s \in ProcessStreams, t \in {"closed", "stall", "error"}, a \in BOOLEAN :
        ProcessRecv(s, t, a)
  \/ \E e \in SendErrs : calibre_handle_init_info(e)
  \/ \E m \in {Msg(o) : o \in ClientOpcodes} \cup NoopMsgs, e \in SendErrs : ClientAnswer(m, e)
  \/ \E m \in {Msg(o) : o \in ClientOpcodes} : ClientIgnore(m)
  \/ Cancel

ConnInit == Init /\ role = "client"

SpecConn == ConnInit /\ [][ConnNext]_vars

(***************************************************************************)
(* tcp_recv_exact, one loop iteration per step.  wire holds the bytes the  *)
(* peer has written since the call started, wire_tail what the socket does *)
(* once they are read: "stall", "closed" or "error".                       *)
(***************************************************************************)
\* the largest len tcp_recv_exact is called with
ExMaxLen == 2

\* timeout_ms, in units of the clock of the model
ExTimeoutMs == 2

\* the bytes a peer writes
ExBytes == {"a", "b"}

RecvSizes_Unbounded(avail, remaining) == 1..avail

\* line 344: recv(ptr, remaining) returns between 1 and remaining of the bytes
\* that are there
RecvSizes(avail, remaining) == 1..(IF avail < remaining THEN avail ELSE remaining)

\* lines 306-310: tcp_recv_exact is entered
ExCall(len) ==
  /\ role = "client"
  /\ ex_pc = "idle"
  /\ len \in 0..ExMaxLen
  /\ ex_pc' = "loop"
  /\ ex_len' = len
  /\ ex_data' = <<>>
  /\ ex_elapsed' = 0
  /\ ex_ret' = "NONE"
  /\ UNCHANGED <<protoVars, framerVars, discVars, open_tcp, stalled, appVars>>

\* the peer writes one more byte
ExPeerSend(b) ==
  /\ ex_pc = "loop"
  /\ wire_tail = "stall"
  /\ Len(wire) <= ExMaxLen
  /\ wire' = Append(wire, b)
  /\ UNCHANGED <<protoVars, wire_tail, recv_buf, rx, tx, f_pc, f_round, restVars>>

\* the peer closes the connection, or the connection breaks
ExPeerEnd(tail) ==
  /\ ex_pc = "loop"
  /\ wire_tail = "stall"
  /\ tail \in {"closed", "error"}
  /\ wire_tail' = tail
  /\ UNCHANGED <<protoVars, wire, recv_buf, rx, tx, f_pc, f_round, restVars>>

\* conn->cancelled is set while tcp_recv_exact runs
ExCancel ==
  /\ ex_pc = "loop"
  /\ ~cancelled
  /\ cancelled' = TRUE
  /\ UNCHANGED <<roleVars, connVars, pc, histVars, fsVars, xferVars, framerVars, restVars>>

\* the value tcp_recv_exact returns is ex_ret
ExReturn(e) ==
  /\ ex_pc' = "done"
  /\ ex_ret' = e
  /\ UNCHANGED <<ex_len, ex_data>>

\* lines 312-358, one pass: n is what recv() returns when bytes are there, dt
\* the time the pass takes, again whether select() or recv() was interrupted
\* (EINTR, EAGAIN) so that the loop continues
ExIter(n, dt, again) ==
  LET remaining == ex_len - Len(ex_data)
      avail == Len(wire) - Len(ex_data)
      later == IF ex_elapsed + dt > ExTimeoutMs THEN ExTimeoutMs + 1 ELSE ex_elapsed + dt
  IN
  /\ ex_pc = "loop"
  /\ dt \in 0..1
  /\ IF remaining = 0 THEN ExReturn("OK") /\ UNCHANGED ex_elapsed
     ELSE IF cancelled THEN ExReturn("CANCELLED") /\ UNCHANGED ex_elapsed
     ELSE IF ex_elapsed > ExTimeoutMs THEN ExReturn("TIMEOUT") /\ UNCHANGED ex_elapsed
     ELSE IF again
       THEN ex_elapsed' = later /\ UNCHANGED <<ex_pc, ex_len, ex_data, ex_ret>>
     ELSE IF avail > 0
       THEN /\ n \in RecvSizes(avail, remaining)
            /\ ex_data' = ex_data \o SubSeq(wire, Len(ex_data) + 1, Len(ex_data) + n)
            /\ ex_elapsed' = later
            /\ UNCHANGED <<ex_pc, ex_len, ex_ret>>
     ELSE IF wire_tail = "closed" THEN ExReturn("DISCONNECTED") /\ ex_elapsed' = later
     ELSE IF wire_tail = "error" THEN ExReturn("SOCKET") /\ ex_elapsed' = later
     ELSE \* select() returns 0 when the rest of the timeout has passed
          ExReturn("TIMEOUT") /\ ex_elapsed' = ExTimeoutMs + 1
  /\ UNCHANGED <<protoVars, framerVars, discVars, open_tcp, stalled, appVars>>

\* the caller has the result; the next call is made on a fresh connection
ExDone ==
  /\ ex_pc = "done"
  /\ ex_pc' = "idle"
  /\ ex_len' = 0
  /\ ex_data' = <<>>
  /\ ex_elapsed' = 0
  /\ ex_ret' = "NONE"
  /\ wire' = <<>>
  /\ wire_tail' = "stall"
  /\ cancelled' = FALSE
  /\ UNCHANGED <<roleVars, connVars, pc, histVars, fsVars, xferVars, recv_buf, rx, tx, f_pc,
                 f_round, discVars, open_tcp, stalled, appVars>>

ExactNext ==
  \/ \E len \in 0..ExMaxLen : ExCall(len)
  \/ \E b \in ExBytes : ExPeerSend(b)
  \/ \E t \in {"closed", "error"} : ExPeerEnd(t)
  \/ ExCancel
  \/ \E n \in 1..ExMaxLen, dt \in 0..1, again \in BOOLEAN : ExIter(n, dt, again)
  \/ ExDone

SpecExact == ConnInit /\ [][ExactNext]_vars

(***************************************************************************)
(* A transfer to the C library from a peer that may stop for good.  The    *)
(* steps of the handler are taken as long as one is possible: the handler  *)
(* runs on a task that is scheduled.                                       *)
(***************************************************************************)
\* the peer stops sending in the middle of a transfer, and never resumes
PeerStalls ==
  /\ role = "client"
  /\ pc \in {"sb_loop", "sb_raw"}
  /\ ~stalled
  /\ stalled' = TRUE
  /\ UNCHANGED <<protoVars, framerVars, discVars, open_tcp, exactVars, appVars>>

\* the steps of calibre_handle_send_book after its first
SbSteps ==
  \/ SbLoopExit
  \/ \E e \in RecvErrs : SbHeaderFail(e)
  \/ \E h \in ChunkHeaders : SbHeader(h)
  \/ \E n \in -1..CALIBRE_FILE_CHUNK_SIZE : SbRawRecv(n)
  \/ \E written \in -1..CALIBRE_FILE_CHUNK_SIZE, go_on \in BOOLEAN : SbWrite(written, go_on)
  \/ SbEnd

LiveNext ==
  \/ \E fail_at \in ConnectOutcomes : calibre_connect(fail_at)
  \/ \E e \in SendErrs : calibre_handle_init_info(e)
  \/ \E m \in SendBookMsgs, mk_ok, open_ok, malloc_ok \in BOOLEAN, e \in SendErrs :
        SbBegin(m, mk_ok, open_ok, e, malloc_ok)
  \/ SbSteps
  \/ Cancel
  \/ PeerStalls

SpecLive == ConnInit /\ [][LiveNext]_vars /\ WF_vars(SbSteps)

(***************************************************************************)
(* Discovery datagrams: calibre_process_discovery of the C library and     *)
(* CalibreDeviceServer::handleUdpDiscovery.                                *)
(***************************************************************************)
\* sizeof(buf) of calibre_process_discovery and of handleUdpDiscovery (64), scaled
UDP_BUF_SIZE == 12

HiThere == <<"h", "i", " ", "t", "h", "e", "r", "e">>

Calibre == <<"c", "a", "l", "i", "b", "r", "e">>

\* recvfrom() returned -1 / parsePacket() returned 0: nothing is pending
NoDatagram == <<NUL, "none">>

\* the datagrams a peer broadcasts
Datagrams == {HiThere, <<"x">> \o Calibre, <<"p", "i", "n", "g">>, <<>>}

\* strstr(s, pat) != NULL
Contains(s, pat) ==
  \E k \in 0..(Len(s) - Len(pat)) : SubSeq(s, k + 1, k + Len(pat)) = pat

\* lines 173-177: at most sizeof(buf) - 1 bytes are read and NUL-terminated
UdpText(d) == CStr(Take(d, UDP_BUF_SIZE - 1), 1)

\* line 181
Recognized(text) == Contains(text, HiThere) \/ Contains(text, Calibre)

RECURSIVE DiscoveryReplies(_, _, _)
\* the loop of calibre_process_discovery from socket i on: the replies sent
DiscoveryReplies(dg, i, port) ==
  IF i >= CALIBRE_BROADCAST_PORT_COUNT THEN <<>>
  ELSE (IF i \in DOMAIN dg /\ dg[i] # NoDatagram /\ Len(dg[i]) > 0 /\ Recognized(UdpText(dg[i]))
          THEN <<[to |-> i, text |-> Dec(port)]>>
          ELSE <<>>) \o DiscoveryReplies(dg, i + 1, port)

\* a calibre_process tick in which the discovery sockets hold the datagrams dg
\* and the TCP part finds nothing to read
ProcessDiscovery(dg) ==
  /\ role = "client"
  /\ pc = "idle"
  /\ discovery_active
  /\ dg \in [udp_sockets -> Datagrams \cup {NoDatagram}]
  /\ udp_in' = dg
  /\ udp_out' = DiscoveryReplies(dg, 0, listen_port)
  /\ StartCall(NoReq) /\ sent' = <<>> /\ ret' = "OK"
  /\ UNCHANGED <<roleVars, connVars, cancelled, pc, fsVars, xferVars, framerVars,
                 discovery_active, udp_sockets, listen_port, open_tcp, stalled, exactVars, appVars>>

\* the text before the port in the response of handleUdpDiscovery
\* ("calibre wireless device client (on <IP>);80,"), scaled
SrvResponsePrefix == <<"c", ";", "8", "0", ",">>

\* a CalibreDeviceServer::loop tick in which udp holds the datagram d and no
\* client has anything to say
SrvUdpDiscovery(d) ==
  /\ role = "server"
  /\ pc = "idle"
  /\ running
  /\ udp_sockets # {}
  /\ d \in Datagrams \cup {NoDatagram}
  /\ udp_in' = [i \in udp_sockets |-> d]
  /\ udp_out' = (IF d = NoDatagram \/ Len(d) <= 0 THEN <<>>
                 ELSE <<[to |-> CHOOSE i \in udp_sockets : TRUE,
                         text |-> SrvResponsePrefix \o Dec(listen_port)]>>)
  /\ StartCall(NoReq) /\ sent' = <<>> /\ ret' = "OK"
  /\ UNCHANGED <<roleVars, connVars, cancelled, pc, fsVars, xferVars, framerVars,
                 discovery_active, udp_sockets, listen_port, open_tcp, stalled, exactVars, appVars>>

DiscNext ==
  \/ \E port \in ListenPorts, bound \in SUBSET Ports : calibre_start_discovery(port, bound)
  \/ calibre_stop_discovery
  \/ \E dg \in [udp_sockets -> Datagrams \cup {NoDatagram}] : ProcessDiscovery(dg)
  \/ \E port \in ListenPorts, bound \in SUBSET Ports : SrvBegin(port, bound)
  \/ SrvStop
  \/ \E d \in Datagrams \cup {NoDatagram} : SrvUdpDiscovery(d)

SpecDisc == Init /\ [][DiscNext]_vars

(***************************************************************************)
(* CalibreSyncState (src/states), the application state that owns the      *)
(* connection context of the client library.  The state machine that owns  *)
(* the state calls enter and exit in turn; the destructor may run in       *)
(* either position.                                                        *)
(***************************************************************************)
MaxInits == 2

\* CALIBRE_PORT (9090 in the source), within ListenPorts
CALIBRE_PORT == 12

Has(calls, f) == \E i \in DOMAIN calls : calls[i] = f

Count(calls, f) == Cardinality({i \in DOMAIN calls : calls[i] = f})

CleanupCalls_NoDisconnect(c, lib) ==
  (IF c THEN <<"calibre_stop_discovery", "calibre_conn_destroy">> ELSE <<>>)
    \o (IF lib THEN <<"calibre_deinit">> ELSE <<>>)

\* cleanup(), run with conn_ = c and libraryInitialized_ = lib: its library calls in order
CleanupCalls(c, lib) ==
  (IF c THEN <<"calibre_stop_discovery", "calibre_disconnect", "calibre_conn_destroy">>
        ELSE <<>>)
    \o (IF lib THEN <<"calibre_deinit">> ELSE <<>>)

\* cleanup() after the calls in before, on the context as the handler found it
cleanup(before, c, lib) ==
  LET calls == CleanupCalls(c, lib)
      stop == Has(calls, "calibre_stop_discovery")
      disc == Has(calls, "calibre_disconnect")
  IN
  /\ lib_calls' = before \o calls
  /\ conn_' = (IF Has(calls, "calibre_conn_destroy") THEN FALSE ELSE c)
  /\ libraryInitialized_' = (IF Has(calls, "calibre_deinit") THEN FALSE ELSE lib)
  /\ deinits' = deinits + Count(calls, "calibre_deinit")
  /\ udp_sockets' = (IF stop THEN UdpAfterStop(udp_sockets) ELSE udp_sockets)
  /\ discovery_active' = (IF stop THEN FALSE ELSE discovery_active)
  /\ tcp_socket' = (IF disc THEN FALSE ELSE tcp_socket)
  /\ open_tcp' = (IF disc /\ tcp_socket THEN open_tcp - 1 ELSE open_tcp)
  /\ connected' = (IF disc THEN FALSE ELSE connected)
  /\ state' = (IF disc THEN "IDLE" ELSE IF stop THEN StateAfterStop(state) ELSE state)
  /\ recv_buf' = (IF disc THEN calibre_buf_reset(recv_buf) ELSE recv_buf)

\* what no handler of the state touches
SyncFrame ==
  UNCHANGED <<roleVars, cancelled, pc, histVars, fsVars, xferVars, wire, wire_tail, rx, tx,
              f_pc, f_round, udp_in, udp_out, stalled, exactVars, cacheVars, on_deleted,
              webVars>>

\* CalibreSyncState::enter: init_ok and create_ok are what calibre_init and
\* calibre_conn_create answer, bound the discovery ports that can be bound
SyncEnter(init_ok, create_ok, bound) ==
  /\ role = "client"
  /\ pc = "idle"
  /\ sync_pc = "out"
  /\ bound \in SUBSET Ports
  /\ sync_pc' = "in"
  /\ IF ~init_ok
       THEN /\ lib_calls' = <<"calibre_init">>
            /\ libraryInitialized_' = FALSE
            /\ UNCHANGED <<conn_, inits, deinits, discVars, connVars, open_tcp, recv_buf>>
       ELSE /\ inits < MaxInits
            /\ inits' = inits + 1
            /\ IF ~create_ok
                 THEN /\ lib_calls' = <<"calibre_init", "calibre_conn_create", "calibre_deinit">>
                      /\ deinits' = deinits + 1
                      /\ libraryInitialized_' = FALSE
                      /\ UNCHANGED <<conn_, discVars, connVars, open_tcp, recv_buf>>
                 ELSE IF DiscoveryStarts(bound)
                   THEN /\ lib_calls' = <<"calibre_init", "calibre_conn_create",
                                          "calibre_start_discovery">>
                        /\ conn_' = TRUE
                        /\ libraryInitialized_' = TRUE
                        /\ listen_port' = CALIBRE_PORT
                        /\ udp_sockets' = bound
                        /\ discovery_active' = TRUE
                        /\ state' = "DISCOVERY"
                        /\ UNCHANGED <<deinits, connected, tcp_socket, open_tcp, recv_buf>>
                   ELSE /\ listen_port' = CALIBRE_PORT
                        /\ cleanup(<<"calibre_init", "calibre_conn_create",
                                     "calibre_start_discovery">>, TRUE, TRUE)
  /\ SyncFrame

\* CalibreSyncState::exit
SyncExit ==
  /\ role = "client"
  /\ pc = "idle"
  /\ sync_pc = "in"
  /\ sync_pc' = "out"
  /\ cleanup(<<>>, conn_, libraryInitialized_)
  /\ UNCHANGED <<inits, listen_port>>
  /\ SyncFrame

\* CalibreSyncState::~CalibreSyncState
SyncDestructor ==
  /\ role = "client"
  /\ pc = "idle"
  /\ sync_pc \in {"out", "in"}
  /\ sync_pc' = "gone"
  /\ cleanup(<<>>, conn_, libraryInitialized_)
  /\ UNCHANGED <<inits, listen_port>>
  /\ SyncFrame

\* CalibreSyncState::update when calibre_process reports that the peer is gone and
\* no book was received: the context is idle and discovery is started again
SyncUpdateDisconnected(bound) ==
  LET socks == udp_sockets \cup bound
  IN
  /\ sync_pc = "in"
  /\ conn_
  /\ CanProcess
  /\ ~cancelled
  /\ bound \in SUBSET Ports
  /\ connected' = FALSE
  /\ IF discovery_active
       THEN /\ state' = "IDLE"
            /\ UNCHANGED discVars
       ELSE /\ listen_port' = CALIBRE_PORT
            /\ udp_sockets' = socks
            /\ discovery_active' = DiscoveryStarts(socks)
            /\ state' = (IF DiscoveryStarts(socks) THEN "DISCOVERY" ELSE "IDLE")
            /\ UNCHANGED <<udp_in, udp_out>>
  /\ StartCall(NoReq) /\ sent' = <<>>
  /\ ret' = "DISCONNECTED"
  /\ UNCHANGED <<roleVars, tcp_socket, cancelled, pc, fsVars, xferVars, framerVars, open_tcp,
                 stalled, exactVars, appVars>>

\* CalibreSyncState::update: one call of calibre_process on the context; the
\* connection to the peer is made by the library (calibre_connect)
SyncUpdate ==
  /\ sync_pc = "in"
  /\ conn_
  /\ \/ \E fail_at \in ConnectOutcomes : calibre_connect(fail_at)
     \/ \E e \in (RecvErrs \cup {"CANCELLED"}) \ {"DISCONNECTED"} : ProcessRecvFail(e)
     \/ \E e \in SendErrs : calibre_handle_init_info(e)
     \/ \E bound \in SUBSET Ports : SyncUpdateDisconnected(bound)

SyncNext ==
  \/ \E init_ok, create_ok \in BOOLEAN, bound \in SUBSET Ports :
        SyncEnter(init_ok, create_ok, bound)
  \/ SyncExit
  \/ SyncDestructor
  \/ SyncUpdate

SpecSync == ConnInit /\ [][SyncNext]_vars

(***************************************************************************)
(* MockContentParser and MockPageCache (the ContentParserAbort test).      *)
(***************************************************************************)
MaxTotalPages == 3

\* uint16_t
UINT16 == 65536

\* the values of maxPages and additionalPages tried
PageArgs == 0..(MaxTotalPages + 1) \cup {UINT16 - 1}

\* An abort callback, by what it answers during one call: FALSE to its first `at`
\* consultations in the parse loop and TRUE to the next one, and `post` when create
\* consults it after the parse.  A null callback never answers TRUE.
Never == MaxTotalPages + 1

AbortAts == 0..Never

\* the loop of parsePages from iteration st.i on
RECURSIVE ParseLoop(_, _, _, _)
ParseLoop(st, total, maxPages, at) ==
  IF st.i >= total THEN st
  ELSE IF st.asked >= at THEN [st EXCEPT !.aborted = TRUE]
  ELSE IF st.hit THEN st
  ELSE LET created == (st.created + 1) % UINT16
       IN  ParseLoop([i |-> st.i + 1, cur |-> st.i + 1, created |-> created,
                      hit |-> (maxPages > 0 /\ created >= maxPages),
                      asked |-> st.asked + 1, aborted |-> FALSE],
                     total, maxPages, at)

\* MockContentParser::parsePages on a parser at page cur of total: the parser
\* afterwards, the pages handed to onPageComplete and the value returned
parsePages(cur, total, maxPages, at) ==
  LET st == ParseLoop([i |-> cur, cur |-> cur, created |-> 0, hit |-> FALSE, asked |-> 0,
                       aborted |-> FALSE], total, maxPages, at)
  IN  [currentPage |-> st.cur, hasMore |-> (st.hit \/ st.aborted), aborted |-> st.aborted,
       created |-> st.created, ret |-> ~st.aborted]

CreateFails_Never(success, count) == FALSE

\* MockPageCache::create line 94
CreateFails(success, count) == ~success /\ count = 0

IsPartialAfter_Complete(hasMore) == FALSE

\* MockPageCache::create line 101
IsPartialAfter(hasMore) == hasMore

\* MockPageCache::create on a parser at page cur: the parser and the cache afterwards
create(cur, total, maxPages, at, post) ==
  LET p == parsePages(cur, total, maxPages, at)
      count == p.created % UINT16
  IN  [currentPage |-> p.currentPage, hasMore |-> p.hasMore, aborted |-> p.aborted,
       pageCount |-> count,
       isPartial |-> (IF CreateFails(p.ret, count) THEN FALSE ELSE IsPartialAfter(p.hasMore)),
       ret |-> (IF CreateFails(p.ret, count) THEN FALSE ELSE ~post)]

PgCall(op, arg, at, post) ==
  [op |-> op, arg |-> arg, abort_at |-> at, post |-> post, prev |-> pageCount_,
   was_partial |-> isPartial_, cur |-> currentPage_]

PgFrame ==
  UNCHANGED <<protoVars, framerVars, discVars, open_tcp, stalled, exactVars, syncVars,
              on_deleted, webVars>>

PgParsePages(maxPages, at) ==
  LET p == parsePages(currentPage_, totalPages_, maxPages, at)
  IN
  /\ pg_call' = PgCall("parsePages", maxPages, at, FALSE)
  /\ currentPage_' = p.currentPage
  /\ hasMore_' = p.hasMore
  /\ aborted_' = p.aborted
  /\ pg_ret' = p.ret
  /\ UNCHANGED <<totalPages_, pageCount_, isPartial_>>
  /\ PgFrame

\* MockContentParser::reset
PgReset ==
  /\ pg_call' = PgCall("reset", 0, Never, FALSE)
  /\ currentPage_' = 0
  /\ hasMore_' = TRUE
  /\ aborted_' = FALSE
  /\ pg_ret' = TRUE
  /\ UNCHANGED <<totalPages_, pageCount_, isPartial_>>
  /\ PgFrame

PgSet(c) ==
  /\ currentPage_' = c.currentPage
  /\ hasMore_' = c.hasMore
  /\ aborted_' = c.aborted
  /\ pageCount_' = c.pageCount
  /\ isPartial_' = c.isPartial
  /\ pg_ret' = c.ret

PgCreate(maxPages, at, post) ==
  /\ pg_call' = PgCall("create", maxPages, at, post)
  /\ PgSet(create(currentPage_, totalPages_, maxPages, at, post))
  /\ UNCHANGED totalPages_
  /\ PgFrame

\* MockPageCache::extend
PgExtend(additionalPages, at, post) ==
  LET targetPages == (pageCount_ + additionalPages) % UINT16
  IN
  /\ pg_call' = PgCall("extend", additionalPages, at, post)
  /\ IF ~isPartial_
       THEN /\ pg_ret' = TRUE
            /\ UNCHANGED <<currentPage_, hasMore_, aborted_, pageCount_, isPartial_>>
       ELSE PgSet(create(0, totalPages_, targetPages, at, post))
  /\ UNCHANGED totalPages_
  /\ PgFrame

CacheNext ==
  \/ \E maxPages \in PageArgs, at \in AbortAts : PgParsePages(maxPages, at)
  \/ PgReset
  \/ \E maxPages \in PageArgs, at \in AbortAts, post \in BOOLEAN : PgCreate(maxPages, at, post)
  \/ \E k \in PageArgs, at \in AbortAts, post \in BOOLEAN : PgExtend(k, at, post)

\* a parser of any number of pages and a cache, both as constructed
CacheInit ==
  /\ ProtoInit /\ role = "client"
  /\ FramerIdle
  /\ DiscoveryIdle
  /\ open_tcp = 0
  /\ stalled = FALSE
  /\ ExactIdle
  /\ SyncIdle
  /\ WebIdle
  /\ totalPages_ \in 0..MaxTotalPages
  /\ CacheFresh

SpecCache == CacheInit /\ [][CacheNext]_vars

\* a cache is created once and then only extended, by extend(parser, k) with k > 0
\* and no abort callback
ExtCreate(maxPages, at, post) ==
  /\ pg_call.op = "none"
  /\ PgCreate(maxPages, at, post)

ExtExtend(k) ==
  /\ pg_call.op # "none"
  /\ k > 0
  /\ PgExtend(k, Never, FALSE)

ExtSteps == \E k \in PageArgs : ExtExtend(k)

ExtendNext ==
  \/ \E maxPages \in PageArgs, at \in AbortAts, post \in BOOLEAN : ExtCreate(maxPages, at, post)
  \/ ExtSteps

\* the caller goes on extending
SpecExtend == CacheInit /\ [][ExtendNext]_vars /\ WF_vars(ExtSteps)

(***************************************************************************)
(* The protocol on a device whose storage already holds a book: the card   *)
(* keeps the books of earlier sessions.                                    *)
(***************************************************************************)
\* the size of the book already stored
StoredLen == 2

\* where the stored book lies: the destination each role gives a SEND_BOOK
\* that names it (lpath "b.e" for the library, "B/n.e" for the device server)
StoredPath ==
  IF role = "client" THEN FullPath(BOOKS_DIR, P_b) ELSE DestPath(P_novel, <<>>)

StoredInit ==
  /\ role \in {"client", "server"}
  /\ running = FALSE
  /\ state = "IDLE"
  /\ connected = FALSE
  /\ tcp_socket = FALSE
  /\ cancelled = FALSE
  /\ pc = "idle"
  /\ req = NoReq
  /\ sent = <<>>
  /\ ret = "OK"
  /\ opened = FALSE
  /\ on_book = <<>>
  /\ progress = <<>>
  /\ on_deleted = <<>>
  /\ files = WithFile(<<>>, StoredPath, StoredLen)
  /\ dirs = {BOOKS_DIR}
  /\ books = 0
  /\ NoXfer
  /\ FramerIdle
  /\ DiscoveryIdle
  /\ open_tcp = 0
  /\ stalled = FALSE
  /\ ExactIdle
  /\ SyncIdle
  /\ WebIdle
  /\ CacheIdle

SpecStored == StoredInit /\ [][Next]_vars

(***************************************************************************)
(* The upload handler of PapyrixWebServer (src/network): the web server    *)
(* calls handleUpload with each event of a file upload and handleUploadPost *)
(* to answer the request.  The card holds a book in the books directory.   *)
(***************************************************************************)
\* the bytes the WRITE events of one upload carry at most
MaxUploadLen == 3

\* upload.currentSize is at most this
MaxUploadChunk == 2

\* the file names a browser may upload: the stored book's
UploadNames == {<<"n", ".", "e">>}

\* the values of the request's path argument
UploadPathArgs == {<<"B">>, <<"/", "B", "/">>, <<"x">>}

\* lines 200-210: uploadPath from the path argument
NormalizePath(has_arg, arg) ==
  IF ~has_arg THEN <<"/">>
  ELSE LET p1 == IF arg # <<>> /\ Head(arg) = "/" THEN arg ELSE <<"/">> \o arg
       IN  IF Len(p1) > 1 /\ p1[Len(p1)] = "/" THEN SubSeq(p1, 1, Len(p1) - 1) ELSE p1

\* lines 214-216 and 251-253: filePath
UploadFilePath(path, name) ==
  (IF path # <<>> /\ path[Len(path)] = "/" THEN path ELSE path \o <<"/">>) \o name

WriteFailureLeaves_Removed(fs_files, path, written) == Unlink(fs_files, path)

\* lines 230-233: the file after a write that wrote fewer bytes than given;
\* it is closed and stays on the card
WriteFailureLeaves(fs_files, path, written) == WithFile(fs_files, path, fs_files[path] + written)

WebFrame ==
  UNCHANGED <<roleVars, connVars, cancelled, pc, histVars, dirs, books, xferVars, framerVars,
              discVars, open_tcp, stalled, exactVars, syncVars, cacheVars, on_deleted>>

\* begin(), lines 28-69: net_ok is whether the device is connected or an access point
WebBegin(net_ok) ==
  /\ ~web_running
  /\ web_running' = net_ok
  /\ UNCHANGED <<files, uploadFile, uploadFileName, uploadPath, uploadSize, uploadSuccess,
                 uploadError, up_opened, up_short, up_given, up_event, http>>
  /\ WebFrame

\* stop(), lines 71-97
WebStop ==
  /\ web_running
  /\ web_running' = FALSE
  /\ uploadFile' = FALSE
  /\ uploadFileName' = <<>>
  /\ uploadPath' = <<"/">>
  /\ uploadSize' = 0
  /\ uploadSuccess' = FALSE
  /\ uploadError' = ""
  /\ UNCHANGED <<files, up_opened, up_short, up_given, up_event, http>>
  /\ WebFrame

\* handleUpload with UPLOAD_FILE_START, lines 194-226: open_ok is what the
\* storage answers to the open.  A file object whose open failed is not open
UploadStart(name, has_arg, arg, open_ok) ==
  LET path == NormalizePath(has_arg, arg)
      filePath == UploadFilePath(path, name)
      cleared == IF filePath \in DOMAIN files THEN Unlink(files, filePath) ELSE files
      isopen == OpenForWrite(filePath, dirs, open_ok)
  IN
  /\ web_running
  /\ uploadFileName' = name
  /\ uploadSize' = 0
  /\ uploadSuccess' = FALSE
  /\ uploadPath' = path
  /\ uploadError' = (IF isopen THEN "" ELSE "Failed to create file")
  /\ uploadFile' = isopen
  /\ files' = (IF isopen THEN WithFile(cleared, filePath, 0) ELSE cleared)
  /\ up_opened' = isopen
  /\ up_short' = FALSE
  /\ up_given' = 0
  /\ up_event' = "START"
  /\ http' = 0
  /\ UNCHANGED web_running
  /\ WebFrame

\* handleUpload with UPLOAD_FILE_WRITE, lines 228-237: n is upload.currentSize,
\* written what uploadFile.write returned
UploadWrite(n, written) ==
  LET filePath == UploadFilePath(uploadPath, uploadFileName)
      writes == uploadFile /\ uploadError = ""
  IN
  /\ web_running
  /\ up_given + n <= MaxUploadLen
  /\ written <= n
  /\ writes \/ written = n
  /\ up_given' = up_given + n
  /\ up_event' = "WRITE"
  /\ IF writes
       THEN IF written # n
              THEN /\ uploadError' = "Write failed - disk full?"
                   /\ uploadFile' = FALSE
                   /\ files' = WriteFailureLeaves(files, filePath, written)
                   /\ up_short' = TRUE
                   /\ UNCHANGED uploadSize
              ELSE /\ uploadSize' = uploadSize + written
                   /\ files' = WithFile(files, filePath, files[filePath] + written)
                   /\ UNCHANGED <<uploadError, uploadFile, up_short>>
       ELSE UNCHANGED <<uploadError, uploadFile, uploadSize, files, up_short>>
  /\ UNCHANGED <<web_running, uploadFileName, uploadPath, uploadSuccess, up_opened, http>>
  /\ WebFrame

\* handleUpload with UPLOAD_FILE_END, lines 239-246
UploadEnd ==
  /\ web_running
  /\ up_event' = "END"
  /\ uploadFile' = FALSE
  /\ uploadSuccess' = (IF uploadFile /\ uploadError = "" THEN TRUE ELSE uploadSuccess)
  /\ UNCHANGED <<web_running, files, uploadFileName, uploadPath, uploadSize, uploadError,
                 up_opened, up_short, up_given, http>>
  /\ WebFrame

\* handleUpload with UPLOAD_FILE_ABORTED, lines 248-258
UploadAborted ==
  /\ web_running
  /\ up_event' = "ABORTED"
  /\ uploadFile' = FALSE
  /\ files' = (IF uploadFile THEN Unlink(files, UploadFilePath(uploadPath, uploadFileName))
               ELSE files)
  /\ uploadError' = "Upload aborted"
  /\ UNCHANGED <<web_running, uploadFileName, uploadPath, uploadSize, uploadSuccess,
                 up_opened, up_short, up_given, http>>
  /\ WebFrame

\* handleUploadPost, lines 261-268
handleUploadPost ==
  /\ web_running
  /\ http' = (IF uploadSuccess THEN 200 ELSE 400)
  /\ UNCHANGED <<web_running, files, uploadFile, uploadFileName, uploadPath, uploadSize,
                 uploadSuccess, uploadError, up_opened, up_short, up_given, up_event>>
  /\ WebFrame

WebNext ==
  \/ \E net_ok \in BOOLEAN : WebBegin(net_ok)
  \/ WebStop
  \/ \E name \in UploadNames, has_arg \in BOOLEAN, arg \in UploadPathArgs, open_ok \in BOOLEAN :
       UploadStart(name, has_arg, arg, open_ok)
  \/ \E n \in 0..MaxUploadChunk, written \in 0..MaxUploadChunk : UploadWrite(n, written)
  \/ UploadEnd
  \/ UploadAborted
  \/ handleUploadPost

WebInit == StoredInit /\ role = "server"

SpecWeb == WebInit /\ [][WebNext]_vars

(***************************************************************************)
(* Properties stated by the specification document.                       *)
(***************************************************************************)
\* the destination of the book of the request being handled, or last handled
Dest ==
  IF role = "client" THEN FullPath(BOOKS_DIR, MetaLpath(req.lpath))
  ELSE DestPath(req.lpath, req.title)

\* a SEND_BOOK request has been handled to its end
SendBookReturned == pc = "idle" /\ req.op = "SEND_BOOK"

\* the replies that accept a book
AcceptingBodies == {"willAccept", "willStreamBinary"}

\* C1: on a NOOP the device replies conditionally: exactly one OK reply when
\* the payload is the empty object {}, no reply at all when the payload is
\* non-empty ({"count": N} for any N, 0 included).
C1_NoopReplyConditional ==
  (pc = "idle" /\ req.op = "NOOP") =>
     sent = (IF req.count = -1 THEN <<Reply("OK", "{}")>> ELSE <<>>)

\* the capability flags the peer requires to be true
RequiredCaps ==
  {"canStreamBooks", "canStreamMetadata", "canReceiveBookBinary", "canDeleteMultipleBooks"}

\* C2: every reply to GET_INITIALIZATION_INFO carries the four required
\* capability flags (canStreamBooks, canStreamMetadata, canReceiveBookBinary,
\* canDeleteMultipleBooks) set to true, in the client and in the server role.
C2_InitInfoCapabilities ==
  \A i \in 1..Len(sent) : sent[i].body = "init_info" => RequiredCaps \subseteq sent[i].caps

\* C3: framer round trip: for every opcode and payload calibre_send_msg
\* accepts, calibre_recv_msg on the bytes it wrote returns OK with the same
\* opcode and a payload span equal to the payload as serialized ({} for an
\* empty payload).  Cancellation and a failed buffer allocation are set aside.
C3_FramerRoundTrip ==
  (f_pc = "rcvd" /\ tx.err = "OK" /\ ~cancelled /\ rx.err # "NOMEM") =>
     /\ rx.err = "OK"
     /\ rx.opcode = tx.opcode
     /\ rx.payload = (IF tx.payload = <<>> THEN <<"{", "}">> ELSE tx.payload)

\* the number of leading digits of the bytes on the wire that the length
\* field takes (at most LEN_BUF_SIZE - 1)
C4_Digits ==
  LET lim == IF Len(wire) < LEN_BUF_SIZE - 1 THEN Len(wire) ELSE LEN_BUF_SIZE - 1
  IN  CHOOSE k \in 0..lim :
        /\ \A i \in 1..k : IsDigit(wire[i])
        /\ k = lim \/ ~IsDigit(wire[k + 1])

\* the length field on the wire is complete (ended by a non-digit byte, or
\* full) and its value N is 0 or greater than the maximum message length
C4_BadLength ==
  /\ ~cancelled
  /\ C4_Digits = LEN_BUF_SIZE - 1 \/ C4_Digits < Len(wire)
  /\ \/ StrToUL(SubSeq(wire, 1, C4_Digits)) = 0
     \/ StrToUL(SubSeq(wire, 1, C4_Digits)) > CALIBRE_MAX_MSG_LEN

\* C4: calibre_recv_msg fails with a protocol error whenever the length
\* prefix N is 0 or greater than the maximum message length; it then has read
\* nothing beyond the byte that ended the length field, and the receive
\* buffer is neither reallocated nor overwritten.
C4_BadLengthRejected ==
  [][(f_pc = "sent" /\ f_pc' = "rcvd" /\ C4_BadLength) =>
       /\ rx'.err = "PROTOCOL"
       /\ rx'.consumed = (IF C4_Digits = LEN_BUF_SIZE - 1 THEN C4_Digits ELSE C4_Digits + 1)
       /\ recv_buf' = recv_buf]_vars

\* a frame with a bad length was rejected while the receive buffer held an
\* earlier message
C4_Witness ==
  /\ f_pc = "rcvd"
  /\ C4_BadLength
  /\ rx.err = "PROTOCOL"
  /\ recv_buf.len > 0
  /\ Len(wire) > C4_Digits + 1

\* the lpath has a ".." segment
HasParentSegment(l) ==
  \E i \in 1..(Len(l) - 1) :
     /\ l[i] = "." /\ l[i + 1] = "."
     /\ i = 1 \/ l[i - 1] = "/"
     /\ i + 1 = Len(l) \/ l[i + 2] = "/"

\* what follows the last dot of the lpath
ExtensionOf(l) == IF LastIndex(l, ".") = 0 THEN <<>> ELSE SubSeq(l, LastIndex(l, ".") + 1, Len(l))

\* the lpath is one that path validation refuses
InvalidLpath(l) ==
  /\ l # <<>>
  /\ \/ l[1] = "/"
     \/ HasParentSegment(l)
     \/ Len(l) > CALIBRE_MAX_PATH_LEN
     \/ ExtensionOf(l) \notin Extensions

\* the declared length is one that size validation refuses
InvalidLength(n) == n = 0 \/ n > CALIBRE_MAX_BOOK_SIZE

\* C5: a SEND_BOOK whose lpath begins with '/', has a '..' segment, is longer
\* than the maximum path length or has an extension outside the accepted list
\* is aborted before any directory is created and before any destination file
\* is opened.
C5_InvalidPathAborted ==
  [][(books' = books + 1 /\ InvalidLpath(req'.lpath)) =>
       (dirs' = dirs /\ files' = files /\ ~opened')]_vars

\* C6: a SEND_BOOK whose declared length is 0 or exceeds the maximum book size
\* is rejected before a destination file is opened: no file is created or
\* truncated, no accepting reply is sent, the book-received callback is not
\* invoked.
C6_BadLengthRefused ==
  [][/\ (books' = books + 1 /\ InvalidLength(req'.length)) =>
          /\ files' = files
          /\ ~opened'
          /\ \A i \in 1..Len(sent') : sent'[i].body \notin AcceptingBodies
     /\ (req'.op = "SEND_BOOK" /\ InvalidLength(req'.length)) => on_book' = <<>>]_vars

\* C7: a SEND_BOOK that validation has to refuse (bad path, bad extension,
\* zero or oversized length) is answered with an ERROR reply, and never with
\* the accepting OK reply.
C7_RefusalRepliesError ==
  (SendBookReturned /\ (InvalidLpath(req.lpath) \/ InvalidLength(req.length))) =>
     /\ \E i \in 1..Len(sent) : sent[i].op = "ERROR"
     /\ \A i \in 1..Len(sent) : sent[i].body \notin AcceptingBodies

\* C8: when a transfer has failed after the destination file was opened, no
\* file exists at the destination path when the handler returns.
C8_NoFileAfterFailure ==
  (SendBookReturned /\ opened /\ on_book = <<>>) => Dest \notin DOMAIN files

\* the handler reported success: calibre_handle_send_book returned OK,
\* handleSendBook sent no ERROR
Succeeded ==
  IF role = "client" THEN ret = "OK" ELSE \A i \in 1..Len(sent) : sent[i].op # "ERROR"

\* C9: when a transfer completes successfully, exactly the declared number of
\* bytes is in the destination file, BOOK_DONE has been sent, and the
\* book-received callback was invoked exactly once, with the final path; the
\* callback is never invoked for a transfer that failed.
C9_SuccessComplete ==
  SendBookReturned =>
     IF Succeeded
       THEN /\ Dest \in DOMAIN files
            /\ files[Dest] = req.length
            /\ \E i \in 1..Len(sent) : sent[i].op = "BOOK_DONE"
            /\ on_book = <<Dest>>
       ELSE on_book = <<>>

\* C10: once the cancellation flag is set during a transfer, no further byte
\* of the transfer is read from the socket, the raw receive loop of a chunk
\* included.
C10_CancelStopsReading ==
  [][(cancelled /\ pc \in {"sb_loop", "sb_raw"}) => buf_pos' = buf_pos]_vars

\* inside a transfer, the last progress callback answered "stop"
StopAnswered == pc # "idle" /\ progress # <<>> /\ ~progress[Len(progress)][3]

C12_HandshakeCompletesOnSend ==
  [][/\ (req'.op = "calibre_connect" /\ ret' = "OK") =>
          (state' = "HANDSHAKE" /\ ~connected' /\ tcp_socket')
     /\ (state = "HANDSHAKE" /\ ~connected /\ req'.op = "GET_INITIALIZATION_INFO") =>
          /\ Len(sent') = 1 /\ sent'[1].op = "OK" /\ sent'[1].caps = ClientInitCaps
          /\ IF ret' = "OK"
               THEN state' = "CONNECTED" /\ connected'
               ELSE state' = "HANDSHAKE" /\ ~connected']_vars

\* the handshake has completed on a connection made by calibre_connect
C12_Witness ==
  /\ req.op = "GET_INITIALIZATION_INFO"
  /\ ret = "OK"
  /\ state = "CONNECTED"
  /\ connected
  /\ tcp_socket

\* C13: there is at most one TCP peer at a time: the device owns at most one
\* open TCP socket to a peer, so a connect made while one is already open
\* closes it before the new one is recorded, and the server releases the
\* client it replaces.
C13_AtMostOneTcpSocket == open_tcp <= 1

\* C14: whatever calls were made, discovery_active is true only if at least
\* one UDP discovery socket is open, and after calibre_stop_discovery no UDP
\* socket remains open.
C14_DiscoveryHasSocket ==
  /\ discovery_active => udp_sockets # {}
  /\ req.op = "calibre_stop_discovery" => udp_sockets = {}

\* discovery runs on some but not all of the ports, beside a TCP connection
C14_Witness ==
  /\ discovery_active
  /\ udp_sockets # {}
  /\ udp_sockets # Ports
  /\ tcp_socket

\* C15: calibre_start_discovery, when discovery is not running, fails exactly
\* when none of the broadcast ports could be bound: it then returns a socket
\* error and leaves discovery_active false and the state unchanged; when at
\* least one port binds it returns OK with discovery_active true and state
\* Discovery, holding the sockets that bound.
C15_StartFailsIffNoneBound ==
  [][(req'.op = "calibre_start_discovery" /\ ~discovery_active) =>
       IF udp_sockets' = {}
         THEN ret' = "SOCKET" /\ ~discovery_active' /\ state' = state
         ELSE ret' = "OK" /\ discovery_active' /\ state' = "DISCOVERY"]_vars

\* discovery was started with one port bound and another one not
C15_Witness ==
  /\ req.op = "calibre_start_discovery"
  /\ ret = "OK"
  /\ state = "DISCOVERY"
  /\ Cardinality(udp_sockets) = 1

\* C16: calibre_stop_discovery is idempotent: after it all UDP sockets are
\* closed and discovery_active is false, the state is Idle if it was Discovery
\* and is unchanged otherwise, and calling it again (or without discovery ever
\* started) changes nothing further.
C16_StopIdempotent ==
  [][req'.op = "calibre_stop_discovery" =>
       /\ udp_sockets' = {}
       /\ ~discovery_active'
       /\ state' = (IF state = "DISCOVERY" THEN "IDLE" ELSE state)
       /\ UNCHANGED <<connected, tcp_socket, open_tcp>>
       /\ req.op = "calibre_stop_discovery" => UNCHANGED <<connVars, discVars, open_tcp>>]_vars

\* discovery was stopped while a session was established
C16_Witness ==
  /\ req.op = "calibre_stop_discovery"
  /\ state = "CONNECTED"
  /\ connected
  /\ ~discovery_active

\* C17: when calibre_connect returns an error (socket creation, name
\* resolution or connect failure), the socket it created has been closed, so
\* no more sockets are open than before the call, less the one of the session
\* it tore down first; tcp_socket does not refer to a socket created by that
\* call; and the error kind is returned.
C17_FailedConnectLeavesNoSocket ==
  [][(req'.op = "calibre_connect" /\ ret' # "OK") =>
       /\ ret' \in {"SOCKET", "CONNECT"}
       /\ open_tcp' = (IF connected /\ tcp_socket THEN open_tcp - 1 ELSE open_tcp)
       /\ tcp_socket' => (tcp_socket /\ ~connected)]_vars

\* a connect failed after its socket had been created
C17_Witness ==
  /\ req.op = "calibre_connect"
  /\ ret = "CONNECT"
  /\ ~tcp_socket
  /\ open_tcp = 0

\* C18: after calibre_disconnect, from any state, the TCP socket is closed
\* (tcp_socket = -1), connected is false, the receive buffer is reset and the
\* state is Idle; calling it again changes nothing further.
C18_DisconnectResets ==
  [][req'.op = "calibre_disconnect" =>
       /\ ~tcp_socket'
       /\ open_tcp' = (IF tcp_socket THEN open_tcp - 1 ELSE open_tcp)
       /\ ~connected'
       /\ recv_buf'.len = 0
       /\ state' = "IDLE"
       /\ req.op = "calibre_disconnect" => UNCHANGED <<connVars, open_tcp, recv_buf, discVars>>]_vars

\* a connection whose receive buffer had held a frame was disconnected
C18_Witness ==
  /\ req.op = "calibre_disconnect"
  /\ state = "IDLE"
  /\ open_tcp = 0
  /\ recv_buf.capacity > 0
  /\ recv_buf.data[1] = NUL
  /\ recv_buf.len = 0

\* C20: tcp_recv_exact(len, timeout) returns OK only after exactly len bytes
\* have been stored, in the order the peer wrote them; it returns Timeout when
\* the deadline has elapsed, Disconnected when the peer has closed, and
\* Cancelled when the cancellation flag is set at the start of any loop
\* iteration; it never stores more than len bytes.
C20_RecvExact ==
  [][/\ Len(ex_data') <= ex_len'
     /\ ex_data' = SubSeq(wire', 1, Len(ex_data'))
     /\ ex_ret' = "OK" => Len(ex_data') = ex_len'
     /\ (ex_pc = "loop" /\ ex_pc' = "done" /\ Len(ex_data) < ex_len) =>
          /\ ex_data' = ex_data
          /\ ex_ret' # "OK"
          /\ cancelled => ex_ret' = "CANCELLED"
          /\ (~cancelled /\ ex_elapsed > ExTimeoutMs) => ex_ret' = "TIMEOUT"
          /\ ex_ret' = "DISCONNECTED" <=>
               /\ ~cancelled /\ ex_elapsed <= ExTimeoutMs
               /\ wire_tail = "closed" /\ Len(ex_data) = Len(wire)
     /\ (ex_pc = "loop" /\ cancelled /\ Len(ex_data) < ex_len /\ exactVars' # exactVars) =>
          ex_ret' = "CANCELLED"]_vars

\* the flag was set after a first byte had been stored, and the call returned
\* Cancelled
C20_Witness ==
  /\ ex_pc = "done"
  /\ ex_ret = "CANCELLED"
  /\ Len(ex_data) = 1
  /\ ex_len = 2

\* C19: no call blocks forever: a calibre_process tick that has entered a
\* handler eventually returns, also when the peer stops sending in the middle
\* of a chunk header or of the raw bytes of a chunk.
C19_TickReturns == (pc # "idle") ~> (pc = "idle")

\* C21: for a decoded message whose opcode is OK or is not a recognized
\* opcode, the device sends nothing to the peer and changes no connection
\* state.
C21_IgnoredOpcodes ==
  [][req'.op \in {"OK", "BOGUS"} =>
       /\ sent' = <<>>
       /\ histVars' # histVars => UNCHANGED <<connVars, open_tcp>>]_vars

\* the replies of the last discovery pass to the sender of the datagram read
\* from socket i
RepliesTo(i) == {k \in 1..Len(udp_out) : udp_out[k].to = i}

\* C22: for each datagram received on a bound discovery socket: if it is a
\* Calibre broadcast (it contains "hi there" or "calibre") the device sends
\* exactly one reply to the sender, carrying its advertised TCP port as ASCII
\* decimal; a datagram that is not recognized gets no reply.
C22_DiscoveryReply ==
  [][(udp_in' # udp_in \/ udp_out' # udp_out) =>
       \A i \in DOMAIN udp_in' :
         udp_in'[i] # NoDatagram =>
           IF Contains(udp_in'[i], HiThere) \/ Contains(udp_in'[i], Calibre)
             THEN /\ Cardinality(RepliesTo(i)') = 1
                  /\ \A k \in RepliesTo(i)' : udp_out'[k].text = Dec(listen_port')
             ELSE RepliesTo(i)' = {}]_vars

\* C23: when decoding a message fails with a protocol error, a JSON-parse
\* error or a timeout, calibre_process returns that error kind and leaves the
\* TCP socket open and the state and the connected flag unchanged; only a peer
\* disconnect detected while decoding moves the state to Idle.
C23_DecodeFailureKeepsConnection ==
  [][(req'.op = "NONE" /\ ret' # "OK") =>
       /\ tcp_socket' = tcp_socket /\ open_tcp' = open_tcp
       /\ IF ret' = "DISCONNECTED"
            THEN state' = "IDLE" /\ ~connected'
            ELSE state' = state /\ connected' = connected]_vars

\* a frame that could not be parsed was read on an established session
C23_Witness ==
  /\ req.op = "NONE"
  /\ ret = "JSON_PARSE"
  /\ recv_buf.len > 0
  /\ state = "CONNECTED"
  /\ connected
  /\ tcp_socket

\* C24: every handler of CalibreSyncState that destroys the connection context
\* (a failing enter, exit, the destructor) has called calibre_stop_discovery and then
\* calibre_disconnect before calibre_conn_destroy, so the context's sockets are closed;
\* conn_ is null afterwards, a context held on exit or destruction is destroyed, and
\* calibre_deinit has run once for each calibre_init that succeeded.
C24_DestroyAfterStopAndDisconnect ==
  [][sync_pc' # sync_pc =>
       /\ \A i \in DOMAIN lib_calls' :
            lib_calls'[i] = "calibre_conn_destroy" =>
              \E j, k \in 1..(i - 1) :
                 /\ j < k
                 /\ lib_calls'[j] = "calibre_stop_discovery"
                 /\ lib_calls'[k] = "calibre_disconnect"
       /\ Has(lib_calls', "calibre_conn_destroy") =>
            ~conn_' /\ udp_sockets' = {} /\ ~discovery_active' /\ ~tcp_socket' /\ ~connected'
       /\ (conn_ /\ sync_pc' # "in") => Count(lib_calls', "calibre_conn_destroy") = 1
       /\ sync_pc' # "in" => ~conn_' /\ ~libraryInitialized_' /\ deinits' = inits'
       /\ sync_pc' = "in" =>
            /\ conn_' => libraryInitialized_'
            /\ inits' = deinits' + (IF libraryInitialized_' THEN 1 ELSE 0)]_vars

C24_Witness ==
  /\ sync_pc = "out"
  /\ lib_calls = <<"calibre_stop_discovery", "calibre_disconnect", "calibre_conn_destroy",
                   "calibre_deinit">>
  /\ req.op = "GET_INITIALIZATION_INFO"
  /\ ~tcp_socket
  /\ inits = MaxInits
  /\ deinits = MaxInits

Min(a, b) == IF a < b THEN a ELSE b

\* the call ran without a callback, or with one that never answered TRUE
NoAbort(call) == call.abort_at = Never /\ ~call.post

\* C25: after MockPageCache::create(parser, maxPages) on a fresh parser with no abort,
\* pageCount is totalPages when maxPages is 0 and min(totalPages, maxPages) otherwise,
\* and isPartial() is true exactly when pageCount < totalPages.
C25_CreatePageCount ==
  (pg_call.op = "create" /\ pg_call.cur = 0 /\ NoAbort(pg_call)) =>
     /\ pageCount_ = (IF pg_call.arg = 0 THEN totalPages_ ELSE Min(totalPages_, pg_call.arg))
     /\ isPartial_ <=> (pageCount_ < totalPages_)

\* the callback of the last call answered TRUE in the parse loop, before the last page
AbortedEarly ==
  /\ pg_call.abort_at = currentPage_ - pg_call.cur
  /\ currentPage_ < totalPages_

\* C26: when the abort callback answers TRUE before all pages are parsed, parsePages
\* returns false with wasAborted() and hasMoreContent() true, and MockPageCache::create
\* returns false; the next parsePages call resets wasAborted(), so an unlimited parse
\* without abort after reset() ends with wasAborted() and hasMoreContent() false.
C26_AbortReported ==
  /\ (pg_call.op = "parsePages" /\ AbortedEarly) => ~pg_ret /\ aborted_ /\ hasMore_
  /\ (pg_call.op = "create" /\ AbortedEarly) => ~pg_ret /\ aborted_ /\ hasMore_
  /\ (pg_call.op = "parsePages" /\ ~AbortedEarly) => pg_ret /\ ~aborted_
  /\ (pg_call.op = "parsePages" /\ pg_call.cur = 0 /\ pg_call.arg = 0 /\ NoAbort(pg_call)) =>
        ~aborted_ /\ ~hasMore_

\* C27: from a partial cache, each extend(parser, k) with k > 0 and no abort yields
\* pageCount = min(totalPages, previous + k); pageCount never decreases nor exceeds
\* totalPages; after finitely many such extends isPartial() is false with
\* pageCount = totalPages; extend on a non-partial cache returns true and changes nothing.
C27_ExtendReachesTotal ==
  /\ [](pg_call.op = "extend" /\ pg_call.was_partial =>
          /\ pageCount_ = Min(totalPages_, pg_call.prev + pg_call.arg)
          /\ pageCount_ >= pg_call.prev
          /\ pageCount_ <= totalPages_)
  /\ [][(pg_call'.op = "extend" /\ ~isPartial_) =>
          /\ pg_ret'
          /\ UNCHANGED <<totalPages_, currentPage_, hasMore_, aborted_, pageCount_,
                         isPartial_>>]_vars
  /\ (isPartial_ ~> (~isPartial_ /\ pageCount_ = totalPages_))

\* C28: after calibre_recv_msg has read a frame of declared length N, byte 0 of the
\* receive buffer is the non-digit byte that ended the length prefix, bytes 1..N-1 are
\* the next N-1 bytes of the stream in order, and byte N is NUL.
C28_FrameInBuffer ==
  (f_pc = "rcvd" /\ rx.msg_len > 0 /\ C4_Digits < LEN_BUF_SIZE - 1) =>
     /\ recv_buf.len = rx.msg_len
     /\ recv_buf.data[1] = wire[C4_Digits + 1]
     /\ \A i \in 2..rx.msg_len : recv_buf.data[i] = wire[C4_Digits + i]
     /\ recv_buf.data[rx.msg_len + 1] = NUL

\* the acknowledgments OK {} among the messages sent
Acks(s) == Cardinality({i \in DOMAIN s : s[i] = Reply("OK", "{}")})

\* C29: the device has sent the accepting reply OK {willAccept: true} before it reads
\* any byte of the book; in the chunk-framed transfer the header of a chunk has been
\* acknowledged before any raw byte of the chunk is read, and the second
\* acknowledgment of a chunk is sent only with the chunk's bytes written to storage.
C29_TransferOrdering ==
  [][/\ (buf_pos' > buf_pos \/ received' > received) =>
          sent # <<>> /\ sent[1] = Reply("OK", "willAccept")
     /\ (role = "client" /\ buf_pos' > buf_pos) => Acks(sent) = 2 * Len(progress) + 1
     /\ (role = "client" /\ Acks(sent') > Acks(sent) /\ Acks(sent) % 2 = 1) =>
          /\ buf_pos = to_receive
          /\ received' = received + to_receive
          /\ files'[full_path] = files[full_path] + to_receive]_vars

\* the length N declared by the prefix on the wire
C30_N == StrToUL(SubSeq(wire, 1, C4_Digits))

\* C30: whenever calibre_recv_msg writes message content for a frame of length N into
\* the receive buffer, the buffer holds at least N + 1 bytes, having been reallocated
\* first when it was too small; when that reallocation fails, calibre_recv_msg returns
\* out-of-memory and has written nothing.
C30_BufferHoldsMessage ==
  [][(f_pc = "sent" /\ f_pc' = "rcvd") =>
       /\ (recv_buf'.data # recv_buf.data /\ rx'.err # "NOMEM") =>
            /\ recv_buf'.capacity >= C30_N + 1
            /\ Len(recv_buf'.data) = recv_buf'.capacity
            /\ recv_buf'.capacity # recv_buf.capacity => C30_N >= recv_buf.capacity
       /\ rx'.msg_len > 0 => recv_buf'.capacity >= rx'.msg_len + 1
       /\ rx'.err = "NOMEM" =>
            /\ C30_N >= recv_buf.capacity
            /\ recv_buf'.data = <<>> /\ recv_buf'.len = 0 /\ recv_buf'.capacity = 0
       /\ (C30_N >= recv_buf.capacity /\ rx'.err \notin {"NOMEM", "PROTOCOL"}
             /\ rx'.consumed > C4_Digits) => recv_buf'.capacity = C30_N + 1]_vars

\* a message longer than the receive buffer was received into a larger one
C30_Witness ==
  /\ f_pc = "rcvd"
  /\ rx.msg_len > RECV_BUF_INIT
  /\ recv_buf.capacity = rx.msg_len + 1
  /\ recv_buf.data[rx.msg_len + 1] = NUL

\* C31: the payload span of a decoded message is not read once a later calibre_recv_msg
\* has reset, overwritten or reallocated the receive buffer: calibre_handle_send_book
\* has copied the metadata out of the SEND_BOOK payload before it decodes the first
\* chunk header, and all it uses afterwards is that copy, whatever the buffer holds.
C31_MetadataCopiedBeforeChunks ==
  (role = "client" /\ pc \in {"sb_loop", "sb_raw", "sb_end"}) =>
     /\ BookMeta = [lpath |-> MetaLpath(req.lpath), size |-> req.length]
     /\ full_path = FullPath(BOOKS_DIR, MetaLpath(req.lpath))

\* a chunk header has overwritten the SEND_BOOK message in the receive buffer
C31_Witness ==
  /\ role = "client"
  /\ pc = "sb_raw"
  /\ json_view # req
  /\ req.lpath # <<>>
  /\ meta.lpath = req.lpath
  /\ json_view.length # req.length

\* C32: calibre_handle_send_book returns OK if and only if the whole book was received:
\* when it returns OK the destination file exists with the declared number of bytes
\* and the book-received callback was invoked; when the file was removed it returns
\* an error.
C32_OkIffBookStored ==
  [][(role = "client" /\ pc = "sb_end" /\ pc' = "idle") =>
       /\ ret' = "OK" <=>
            /\ full_path \in DOMAIN files'
            /\ files'[full_path] = req.length
            /\ on_book' = <<full_path>>
       /\ full_path \notin DOMAIN files' => ret' # "OK"]_vars

\* C33: throughout a book transfer the count of received bytes never exceeds the
\* declared length, and neither does the number of bytes written to the destination
\* file, for any sequence of chunk lengths the peer announces.
C33_ReceivedWithinDeclared ==
  (pc # "idle") =>
     /\ received <= req.length
     /\ full_path \in DOMAIN files => files[full_path] <= req.length

\* C34: whenever calibre_process returns Disconnected, the disconnect having been
\* detected while decoding a message or inside the SEND_BOOK handler during a transfer,
\* the connection afterwards is in state Idle and calibre_is_connected is false.
C34_DisconnectedMeansIdle ==
  [][(/\ role = "client"
      /\ pc' = "idle"
      /\ pc = "sb_end" \/ histVars' # histVars
      /\ req'.op \in {"NONE", "SEND_BOOK"}
      /\ ret' = "DISCONNECTED") =>
       state' = "IDLE" /\ ~connected']_vars

\* C35: discovery and the TCP session are independent: a call of
\* calibre_start_discovery or calibre_stop_discovery while a TCP peer is in Handshake
\* or Connected does not change the TCP phase, and calibre_process still receives and
\* dispatches that peer's messages afterwards.
C35_DiscoveryLeavesSession ==
  [][(/\ req'.op \in {"calibre_start_discovery", "calibre_stop_discovery"}
      /\ tcp_socket
      /\ state \in {"HANDSHAKE", "CONNECTED"}) =>
       /\ state' = state
       /\ connected' = connected
       /\ tcp_socket'
       /\ ~stalled => CanProcess']_vars

\* C36: the connection phase agrees with the discovery flag: whenever discovery is
\* active and no TCP socket is open the state is Discovery, also after
\* calibre_disconnect or a peer disconnect with discovery still active, and after
\* every calibre_start_discovery that returns OK.
C36_PhaseFollowsDiscovery ==
  /\ (discovery_active /\ ~tcp_socket) => state = "DISCOVERY"
  /\ (req.op = "calibre_start_discovery" /\ ret = "OK" /\ ~tcp_socket) => state = "DISCOVERY"

\* C37: opcodes of the Connected phase are acted on only after the handshake: a
\* SEND_BOOK (or SET_LIBRARY_INFO, FREE_SPACE, SEND_BOOKLISTS) that arrives while the
\* connection is in Handshake, GET_INITIALIZATION_INFO not yet answered, creates no
\* file or directory and starts no transfer, and the connection stays in Handshake.
C37_NothingBeforeHandshake ==
  [][(/\ role = "client"
      /\ pc = "idle"
      /\ state = "HANDSHAKE"
      /\ histVars' # histVars
      /\ req'.op \in {"SEND_BOOK", "SET_LIBRARY_INFO", "FREE_SPACE", "SEND_BOOKLISTS"}) =>
       /\ files' = files
       /\ dirs' = dirs
       /\ pc' = "idle"
       /\ state' = "HANDSHAKE"]_vars

\* the SEND_BOOK last handled names the stored book and has ended in failure (the
\* library's handler returned an error, the device server answered ERROR), and
\* no book was deleted on request
C38_TransferFailed ==
  /\ pc = "idle"
  /\ on_deleted = <<>>
  /\ req.op = "SEND_BOOK"
  /\ IF role = "client"
       THEN FullPath(BOOKS_DIR, MetaLpath(req.lpath)) = StoredPath /\ ret # "OK"
       ELSE /\ DestPath(req.lpath, req.title) = StoredPath
            /\ sent # <<>>
            /\ sent[Len(sent)].op = "ERROR"

\* C38: a book transfer that fails or is rejected does not destroy the book
\* already stored at its destination path: after the failure the earlier file
\* is still there with its earlier content
C38_StoredBookSurvives ==
  C38_TransferFailed => (StoredPath \in DOMAIN files /\ files[StoredPath] = StoredLen)

\* the path handleDeleteBook works on for the request req
C39_Path == <<"/">> \o req'.lpath

\* the file at that path is gone by this step
C39_FileRemoved == C39_Path \in DOMAIN files /\ C39_Path \notin DOMAIN files'

\* C39: the device server answers a DELETE_BOOK exactly once: ERROR when the
\* lpath is missing or an existing file could not be removed, OK when the
\* file was removed or nothing existed at the path; the book-deleted callback
\* is called exactly when a file was removed, with its path
C39_DeleteBookAnswers ==
  [][(role = "server" /\ histVars' # histVars /\ req'.op = "DELETE_BOOK") =>
       /\ Len(sent') = 1
       /\ sent'[1].op \in {"OK", "ERROR"}
       /\ (req'.lpath = <<>>) => (sent'[1].op = "ERROR" /\ files' = files)
       /\ (req'.lpath # <<>> /\ C39_Path \in DOMAIN files /\ ~C39_FileRemoved) =>
            sent'[1].op = "ERROR"
       /\ (req'.lpath # <<>> /\ (C39_FileRemoved \/ C39_Path \notin DOMAIN files \cup dirs)) =>
            sent'[1].op = "OK"
       /\ on_deleted' = (IF C39_FileRemoved THEN Append(on_deleted, C39_Path) ELSE on_deleted)
       /\ \A q \in DOMAIN files \ {C39_Path} : q \in DOMAIN files' /\ files'[q] = files[q]]_vars

\* a received book was deleted on request: OK was answered and the callback has its path
C39_Witness ==
  /\ role = "server"
  /\ req.op = "DELETE_BOOK"
  /\ sent = <<Reply("OK", "{}")>>
  /\ on_book = <<>>
  /\ books = 1
  /\ on_deleted = <<(<<"/">> \o req.lpath)>>
  /\ files = <<>>

\* a DELETE_BOOK was answered ERROR because the file there could not be removed
C39_WitnessFailed ==
  /\ role = "server"
  /\ req.op = "DELETE_BOOK"
  /\ (<<"/">> \o req.lpath) \in DOMAIN files
  /\ sent = <<Reply("ERROR", "Failed to delete file")>>
  /\ on_deleted = <<>>

\* handleUploadPost answers the request whose upload has ended or was aborted
C40_Answered == http = 0 /\ http' # 0 /\ up_event \in {"END", "ABORTED"}

\* C40: the answer to POST /upload reports success only if the file of the
\* upload was opened and every write wrote all its bytes; and when the upload
\* ended without success after a failed write or an abort, no partial file is
\* left at the upload path
C40_UploadOutcome ==
  [][C40_Answered =>
       /\ (http' = 200) => (up_opened /\ ~up_short)
       /\ (http' = 400 /\ (up_short \/ uploadError = "Upload aborted")) =>
            UploadFilePath(uploadPath, uploadFileName) \notin DOMAIN files']_vars

\* the first half of C40 alone
C40_SuccessOnlyIfWritten ==
  [][C40_Answered => ((http' = 200) => (up_opened /\ ~up_short))]_vars

\* the second half of C40 for aborts alone
C40_AbortLeavesNoFile ==
  [][(C40_Answered /\ http' = 400 /\ ~up_short /\ up_event = "ABORTED") =>
       UploadFilePath(uploadPath, uploadFileName) \notin DOMAIN files']_vars

====
